---- MODULE Spec2Model ----
(***************************************************************************)
(* Model of the live-data cache and prefetch engine of trains.mattdev.im.  *)
(*                                                                         *)
(*   SpecPrefetch / FairPrefetch : app/services/prefetch.py                *)
(*       PrefetchCoordinator on one asyncio event loop.  A step of a job   *)
(*       task runs from one point where the task suspends to the next.     *)
(*   SpecCache : app/middleware/cache.py, SimpleCache and SQLiteCache      *)
(*       driven by the same operations at the same clock.                  *)
(*   SpecBoard : app/services/rail_api.py, RailAPIService.get_board on top *)
(*       of the process-wide SQLiteCache.                                  *)
(***************************************************************************)
EXTENDS Integers, Sequences, FiniteSets, TLC

VARIABLES
    \* ---- app/services/prefetch.py -------------------------------------
    prefetch_enabled,          \* settings.prefetch_enabled
    prefetch_max_concurrency,  \* settings.prefetch_max_concurrency
    tasks,                     \* asyncio tasks made by create_task(_run_job(..)), in creation order
    active_job_keys,           \* PrefetchCoordinator._active_job_keys
    sem_value,                 \* PrefetchCoordinator._semaphore._value
    sem_waiters,               \* PrefetchCoordinator._semaphore._waiters (FIFO)
    calls,                     \* per job key, how many times the work body was entered
    \* ---- app/middleware/cache.py ---------------------------------------
    now,                       \* time.time(), in ticks of 1/TicksPerSecond s
    simple_cache,              \* SimpleCache._cache
    sqlite_rows,               \* the cache_entries table of SQLiteCache
    writes_since_cleanup,      \* SQLiteCache._writes_since_cleanup
    db_up,                     \* whether sqlite3 can open and use the database file
    last_op,                   \* the last cache operation and what each backend returned
    ghost,                     \* per key, the last set or delete/clear (history)
    \* ---- app/services/rail_api.py --------------------------------------
    upstream,                  \* what the rail API answers to a board request right now
    last_call,                 \* the last get_board call and how it ended
    fresh,                     \* the last board fetched from upstream and cached (history)
    disturbed,                 \* upstream, cache or backend changed since that fetch (history)
    detail_upstream,           \* per station, what GetArrDepBoardWithDetails answers right now
    follow_call,               \* the last get_service_route_following call and how it ended
    cached_follow,             \* the last get_service_route_following_cached call and how it ended
    \* ---- app/services/tfl_api.py ---------------------------------------
    click,                     \* the last _match_prediction_for_click call and what it returned
    stop_upstream,             \* what the TfL API answers to /StopPoint/{id} right now
    resolve_call,              \* the last resolve_stop_point_id call and how it ended
    route_call,                \* the last get_service_route_detail call and how it ended
    tfl_board_call,            \* the last TflAPIService.get_board call and how it ended
    tfl_request,               \* the TfL credentials and the last _get_json call
    workers,                   \* per worker process, where its SQLiteCache call stands
    \* ---- app/routers/pages.py ------------------------------------------
    page_call                  \* the last board_view_nr request and what it scheduled

prefetchVars ==
    <<prefetch_enabled, prefetch_max_concurrency, tasks, active_job_keys,
      sem_value, sem_waiters, calls>>

cacheVars ==
    <<now, simple_cache, sqlite_rows, writes_since_cleanup, db_up, last_op, ghost>>

boardVars == <<upstream, last_call, fresh, disturbed>>

followVars == <<detail_upstream, follow_call>>

tflVars == <<click, stop_upstream, resolve_call>>

pageVars == <<page_call>>

detailVars == <<route_call, tfl_board_call>>

miscVars == <<tfl_request, workers>>

restVars == <<cached_follow, tflVars, pageVars, detailVars, miscVars>>

vars == <<prefetchVars, cacheVars, boardVars, followVars, restVars>>

\* ------------------------------------------------------------------------
\* Bounds of the model
\* ------------------------------------------------------------------------
MaxTasks == 2          \* job tasks created in one behaviour
MaxConcurrency == 2    \* largest prefetch_max_concurrency tried
MaxRows == 1           \* rows of a board a board job fans out over
TicksPerSecond == 2    \* resolution of the clock: time.time() is a float
MaxTime == 2           \* seconds of clock the cache specification covers
CleanupEvery == 2      \* SQLiteCache(cleanup_every=...) the model is built with

\* ------------------------------------------------------------------------
\* Inputs
\* ------------------------------------------------------------------------
CrsInputs == {"LHD", "lhd", "L1D"}
ServiceCrsInputs == {"LHD", "lhd"}
ServiceIdInputs == {"", "S1"}
StopInputs == {"", "940G"}

\* str.upper(), str.lower() and str.strip() on the strings the model uses
Upper(s) ==
    CASE s = "lhd" -> "LHD" [] s = "l1d" -> "L1D" [] s = "hubbds" -> "HUBBDS"
      [] s = "940gzzlubnd" -> "940GZZLUBND" [] OTHER -> s
Lower(s) ==
    CASE s = "Victoria" -> "victoria" [] s = "940G" -> "940g" [] s = "940T" -> "940t"
      [] s = "HUBBDS" -> "hubbds" [] s = "940GZZLUBND" -> "940gzzlubnd" [] OTHER -> s
Strip(s) == CASE s = " " -> "" [] OTHER -> s

\* len(normalized_crs) == 3 and normalized_crs.isalpha()
IsAlpha3(s) == s \in {"LHD", "lhd", "DKG", "WAT"}

\* ------------------------------------------------------------------------
\* app/services/prefetch.py : PrefetchCoordinator
\* ------------------------------------------------------------------------
NrRowInputs == { [service_id |-> i] : i \in {"", "S1"} }
TflRowInputs ==
    { [line_id |-> l, from_stop_id |-> "940G", to_stop_id |-> d] :
        l \in {"Victoria"}, d \in {"", "940T"} }

\* Exceptions a work body can end with ("ok": it returned normally).
NrExceptions == {"TimeoutError", "RailAPIError", "RuntimeError"}
TflExceptions == {"TimeoutError", "TflBoardNotFoundError", "TflAPIError", "RuntimeError"}
ExceptionSubclasses ==
    {"TimeoutError", "RailAPIError", "BoardNotFoundError", "RuntimeError",
     "TflBoardNotFoundError", "TflAPIError"}

SeqsUpTo(S, n) == UNION { [1..m -> S] : m \in 0..n }

\* parent and rows are history: the job whose runner scheduled this one (0: a
\* request did) and the rows its own fetch returned.
NewTask(job_key) ==
    [key |-> job_key, pc |-> "created", result |-> "", parent |-> 0, rows |-> <<>>]

\* A claim that forgets the membership test (mutant of ClaimJob).
ClaimJobNoDedup(keys, job_key) == [claimed |-> TRUE, keys |-> keys \cup {job_key}]

\* _claim_job: under _active_lock, refuse a key that is in flight, else add it.
\* The lock is never held across an await, so acquiring it never suspends.
ClaimJob(keys, job_key) ==
    IF job_key \in keys
    THEN [claimed |-> FALSE, keys |-> keys]
    ELSE [claimed |-> TRUE, keys |-> keys \cup {job_key}]

\* A release that empties the set (mutant of ReleaseJob).
ReleaseJobDiscardsAll(keys, job_key) == {}

\* _release_job: discard the key.
ReleaseJob(keys, job_key) == keys \ {job_key}

\* A release on the success path only, no finally (mutant of FinallyRelease).
ReleaseOnSuccessOnly(keys, job_key, result) ==
    IF result = "done" THEN keys \ {job_key} ELSE keys

\* A release that the timeout clause skips (mutant of FinallyRelease).
ReleaseUnlessTimeout(keys, job_key, result) ==
    IF result = "timeout" THEN keys ELSE keys \ {job_key}

\* The try/finally of _run_job: the key is released whatever the body's result.
FinallyRelease(keys, job_key, result) == ReleaseJob(keys, job_key)

\* A semaphore that never makes anyone wait (mutant of SemFree).
SemAlwaysFree(value, waiters) == TRUE

\* asyncio.Semaphore.acquire takes a permit without suspending iff one is free
\* and nobody is queued.
SemFree(value, waiters) == value > 0 /\ waiters = <<>>

\* _run_job without its last clause, except Exception (mutant of ExceptHandler).
ExceptHandlerNoCatchAll(exc) ==
    CASE exc = "ok" -> "done"
      [] exc \in {"TflBoardNotFoundError", "TflAPIError"} -> "error(tfl)"
      [] exc = "TimeoutError" -> "timeout"
      [] OTHER -> "raise"

\* The except clauses of _run_job, in order; "raise": no clause matches and the
\* exception leaves _run_job.
ExceptHandler(exc) ==
    CASE exc = "ok" -> "done"
      [] exc \in {"TflBoardNotFoundError", "TflAPIError"} -> "error(tfl)"
      [] exc = "TimeoutError" -> "timeout"
      [] exc \in ExceptionSubclasses -> "error"
      [] OTHER -> "raise"

\* schedule_nr_service_prefetch(crs, service_id), as the tasks it leaves behind
ScheduleNrService(ts, crs, service_id) ==
    IF ~prefetch_enabled \/ service_id = ""
    THEN ts
    ELSE Append(ts, NewTask(<<"nr", Upper(crs), service_id>>))

\* schedule_nr_board_prefetch(crs)
ScheduleNrBoard(ts, crs) ==
    LET normalized_crs == Upper(Strip(crs)) IN
    IF ~prefetch_enabled \/ ~IsAlpha3(normalized_crs)
    THEN ts
    ELSE Append(ts, NewTask(<<"nr-board", normalized_crs>>))

\* schedule_tfl_board_prefetch(stop_point_id)
ScheduleTflBoard(ts, stop_point_id) ==
    LET normalized_stop_id == Strip(stop_point_id) IN
    IF ~prefetch_enabled \/ normalized_stop_id = ""
    THEN ts
    ELSE Append(ts, NewTask(<<"tfl-board", Lower(normalized_stop_id)>>))

\* schedule_tfl_service_prefetch(params); direction, trip_id, vehicle_id and
\* expected_arrival are absent from the params the model passes.
ScheduleTflService(ts, params) ==
    LET line_id == Lower(Strip(params.line_id))
        from_stop_id == Strip(params.from_stop_id)
        to_stop_id == Strip(params.to_stop_id)
    IN  IF ~prefetch_enabled \/ line_id = "" \/ from_stop_id = "" \/ to_stop_id = ""
        THEN ts
        ELSE Append(ts, NewTask(<<"tfl", line_id, Lower(from_stop_id),
                                  Lower(to_stop_id), "", "", "", "">>))

\* The loop of schedule_nr_board_prefetch._runner over board.trains
RECURSIVE NrFanOut(_, _, _)
NrFanOut(ts, board_crs, rows) ==
    IF rows = <<>> THEN ts
    ELSE LET service_id == Strip(Head(rows).service_id)
             next == IF service_id # ""
                     THEN ScheduleNrService(ts, board_crs, service_id)
                     ELSE ts
         IN  NrFanOut(next, board_crs, Tail(rows))

\* The loop of schedule_tfl_board_prefetch._runner over the mapped rows
RECURSIVE TflFanOut(_, _)
TflFanOut(ts, rows) ==
    IF rows = <<>> THEN ts
    ELSE LET r == Head(rows)
             next == IF r.line_id = "" \/ r.from_stop_id = "" \/ r.to_stop_id = ""
                     THEN ts
                     ELSE ScheduleTflService(ts, r)
         IN  TflFanOut(next, Tail(rows))

Kind(job_key) == job_key[1]

\* A runner in which a service job schedules a job of its own.
RunnerFanOutFromServiceToo(ts, job_key, rows) ==
    CASE Kind(job_key) = "nr-board" -> NrFanOut(ts, job_key[2], rows)
      [] Kind(job_key) = "tfl-board" -> TflFanOut(ts, rows)
      [] OTHER -> ScheduleNrBoard(ts, "LHD")

\* What the _runner of a job does when its fetch returned: a board job
\* schedules its rows' service jobs, a service job schedules nothing.
RunnerFanOut(ts, job_key, rows) ==
    CASE Kind(job_key) = "nr-board" -> NrFanOut(ts, job_key[2], rows)
      [] Kind(job_key) = "tfl-board" -> TflFanOut(ts, rows)
      [] OTHER -> ts

\* The rows the fetch of a job can return: a board's trains for a board job.
RowsFor(job_key) ==
    CASE Kind(job_key) = "nr-board" -> SeqsUpTo(NrRowInputs, MaxRows)
      [] Kind(job_key) = "tfl-board" -> SeqsUpTo(TflRowInputs, MaxRows)
      [] OTHER -> {<<>>}

Raisable(job_key) ==
    IF Kind(job_key) \in {"nr", "nr-board"} THEN NrExceptions ELSE TflExceptions

\* The job keys the inputs of the model give rise to.
JobKeys ==
    {<<"nr", "LHD", "S1">>,
     <<"nr-board", "LHD">>, <<"tfl-board", "940g">>,
     <<"tfl", "victoria", "940g", "940t", "", "", "", "">>}

TaskIds == 1..Len(tasks)
InFlightPcs == {"semwait", "woken", "running"}
InFlight(job_key) == { t \in TaskIds : tasks[t].key = job_key /\ tasks[t].pc \in InFlightPcs }
Running == { t \in TaskIds : tasks[t].pc = "running" }

\* ------------------------------------------------------------------------
\* app/middleware/cache.py : SimpleCache and SQLiteCache
\* ------------------------------------------------------------------------
CacheTtlSeconds == 60
DefaultTtl == CacheTtlSeconds
CacheKeys == {"k1", "k2"}
CacheValues == {"v1", "v2"}
TtlInputs == {0, 1}
None == "None"

\* A dict / a table as a function on the keys present.
Put(m, key, e) == [k \in DOMAIN m \cup {key} |-> IF k = key THEN e ELSE m[k]]
Remove(m, key) == [k \in DOMAIN m \ {key} |-> m[k]]
EmptyMap == [k \in {} |-> None]

\* int(time.time())
IntTime(t) == t \div TicksPerSecond

\* json.dumps / json.loads on the JSON-native values the services store
JsonDumps(value) == <<"json", value>>
JsonLoads(value_json) == value_json[2]

\* ttl = ttl or self._default_ttl
TtlOrDefault(ttl) == IF ttl = 0 THEN DefaultTtl ELSE ttl

\* CacheEntry.is_expired: time.time() - self.timestamp > self.ttl
IsExpired(entry, t) == t - entry.timestamp > entry.ttl * TicksPerSecond

\* SimpleCache.get; hit is FALSE where the method returns None
SimpleGet(c, key, t) ==
    IF key \notin DOMAIN c THEN [hit |-> FALSE, value |-> None, cache |-> c]
    ELSE IF IsExpired(c[key], t) THEN [hit |-> FALSE, value |-> None, cache |-> Remove(c, key)]
    ELSE [hit |-> TRUE, value |-> c[key].data, cache |-> c]

\* SimpleCache.set
SimpleSet(c, key, value, ttl, t) ==
    Put(c, key, [data |-> value, timestamp |-> t, ttl |-> TtlOrDefault(ttl)])

\* SimpleCache.delete
SimpleDelete(c, key) == IF key \in DOMAIN c THEN Remove(c, key) ELSE c

\* SimpleCache.size
SimpleSize(c) == Cardinality(DOMAIN c)

\* A row test under which no row ever expires (mutant of RowExpired).
RowNeverExpires(row, t) == FALSE

\* The row test of SQLiteCache.get: expires_at <= now
RowExpired(row, t) == row.expires_at <= IntTime(t)

\* SQLiteCache.get
SqliteGet(rows, key, t) ==
    IF key \notin DOMAIN rows THEN [hit |-> FALSE, value |-> None, rows |-> rows]
    ELSE IF RowExpired(rows[key], t) THEN [hit |-> FALSE, value |-> None, rows |-> Remove(rows, key)]
    ELSE [hit |-> TRUE, value |-> JsonLoads(rows[key].value), rows |-> rows]

\* SQLiteCache.cleanup_expired: DELETE FROM cache_entries WHERE expires_at <= now
CleanupExpired(rows, t) ==
    [k \in { x \in DOMAIN rows : ~(rows[x].expires_at <= IntTime(t)) } |-> rows[k]]

\* SQLiteCache.set: the upsert, then the write counter and the periodic cleanup
SqliteSet(rows, writes, key, value, ttl, t) ==
    LET expires_at == IntTime(t) + TtlOrDefault(ttl)
        upserted == Put(rows, key, [value |-> JsonDumps(value), expires_at |-> expires_at])
    IN  IF writes + 1 >= CleanupEvery
        THEN [rows |-> CleanupExpired(upserted, t), writes |-> 0]
        ELSE [rows |-> upserted, writes |-> writes + 1]

\* A delete that spares rows that have not expired (mutant of SqliteDelete).
SqliteDeleteExpiredOnly(rows, key, t) ==
    IF key \in DOMAIN rows /\ RowExpired(rows[key], t) THEN Remove(rows, key) ELSE rows

\* SQLiteCache.delete
SqliteDelete(rows, key, t) == IF key \in DOMAIN rows THEN Remove(rows, key) ELSE rows

\* SQLiteCache.size
SqliteSize(rows) == Cardinality(DOMAIN rows)

\* held: whether the key had an entry in both stores when it was set
NoHistory == [st |-> "none", value |-> None, at |-> 0, ttl |-> 0, held |-> FALSE]
NoOp == [op |-> "none", key |-> None, simple |-> None, sqlite |-> None]

\* The cache as it is when nothing has used it.
CacheIdle ==
    /\ now = 0
    /\ simple_cache = EmptyMap
    /\ sqlite_rows = EmptyMap
    /\ writes_since_cleanup = 0
    /\ db_up = TRUE
    /\ last_op = NoOp
    /\ ghost = [k \in CacheKeys |-> NoHistory]

PrefetchIdle ==
    /\ prefetch_enabled = TRUE
    /\ prefetch_max_concurrency = 1
    /\ sem_value = 1
    /\ sem_waiters = <<>>
    /\ active_job_keys = {}
    /\ tasks = <<>>
    /\ calls = [k \in JobKeys |-> 0]

\* ---- the operations, issued to both backends at the same clock ----
CacheGet(key) ==
    /\ LET a == SimpleGet(simple_cache, key, now)
           b == SqliteGet(sqlite_rows, key, now)
       IN  /\ simple_cache' = a.cache
           /\ sqlite_rows' = b.rows
           /\ last_op' = [op |-> "get", key |-> key, simple |-> a.value, sqlite |-> b.value]
    /\ UNCHANGED <<prefetchVars, boardVars, followVars, restVars, now, writes_since_cleanup, db_up, ghost>>

CacheSet(key, value, ttl) ==
    /\ LET b == SqliteSet(sqlite_rows, writes_since_cleanup, key, value, ttl, now) IN
         /\ simple_cache' = SimpleSet(simple_cache, key, value, ttl, now)
         /\ sqlite_rows' = b.rows
         /\ writes_since_cleanup' = b.writes
    /\ last_op' = NoOp
    /\ ghost' = [ghost EXCEPT ![key] =
                    [st |-> "set", value |-> value, at |-> now, ttl |-> ttl,
                     held |-> key \in DOMAIN simple_cache /\ key \in DOMAIN sqlite_rows]]
    /\ UNCHANGED <<prefetchVars, boardVars, followVars, restVars, now, db_up>>

CacheDelete(key) ==
    /\ simple_cache' = SimpleDelete(simple_cache, key)
    /\ sqlite_rows' = SqliteDelete(sqlite_rows, key, now)
    /\ last_op' = NoOp
    /\ ghost' = [ghost EXCEPT ![key].st = "deleted"]
    /\ UNCHANGED <<prefetchVars, boardVars, followVars, restVars, now, writes_since_cleanup, db_up>>

CacheClear ==
    /\ simple_cache' = EmptyMap
    /\ sqlite_rows' = EmptyMap
    /\ last_op' = NoOp
    /\ ghost' = [k \in CacheKeys |-> [ghost[k] EXCEPT !.st = "cleared"]]
    /\ UNCHANGED <<prefetchVars, boardVars, followVars, restVars, now, writes_since_cleanup, db_up>>

CacheSize ==
    /\ last_op' = [op |-> "size", key |-> None,
                   simple |-> SimpleSize(simple_cache), sqlite |-> SqliteSize(sqlite_rows)]
    /\ UNCHANGED <<prefetchVars, boardVars, followVars, restVars, now, simple_cache, sqlite_rows, writes_since_cleanup,
                   db_up, ghost>>

\* Time passes.
Tick ==
    /\ now < MaxTime * TicksPerSecond
    /\ now' = now + 1
    /\ last_op' = NoOp
    /\ UNCHANGED <<prefetchVars, boardVars, followVars, restVars, simple_cache, sqlite_rows, writes_since_cleanup,
                   db_up, ghost>>



\* ------------------------------------------------------------------------
\* app/services/rail_api.py : RailAPIService.get_board over the SQLite cache
\* ------------------------------------------------------------------------
Row(id, ok) == [serviceID |-> id, parses |-> ok]
NoPayload == [locationName |-> None, crs |-> None, trainServices |-> <<>>]
Payloads ==
    { [locationName |-> "Leatherhead", crs |-> "LHD",
       trainServices |-> <<Row("S1", TRUE), Row("S2", TRUE), Row("S3", TRUE)>>],
      [locationName |-> "Leatherhead", crs |-> "LHD",
       trainServices |-> <<Row("S2", TRUE), Row("S4", FALSE), Row("S3", TRUE)>>],
      NoPayload }
\* What client.get / raise_for_status can end with other than a 200:
\* httpx.HTTPStatusError with a status code, httpx.RequestError (connection
\* error) or its subclass httpx.TimeoutException.
ErrorKinds == {"400", "404", "401", "403", "500", "503", "RequestError", "TimeoutException"}
StatusCode(kind) ==
    CASE kind = "400" -> 400 [] kind = "404" -> 404 [] kind = "401" -> 401
      [] kind = "403" -> 403 [] kind = "500" -> 500 [] kind = "503" -> 503
      [] OTHER -> 0
UpstreamStates ==
    { [kind |-> "200", payload |-> p] : p \in Payloads }
      \cup { [kind |-> e, payload |-> NoPayload] : e \in ErrorKinds }
BoardCrsInputs == {"LHD", "lhd"}

\* The instants at which the model lets a request arrive, in ticks.
ClockPoints ==
    {0, 1, TicksPerSecond, 30 * TicksPerSecond,
     CacheTtlSeconds * TicksPerSecond - 1, CacheTtlSeconds * TicksPerSecond,
     CacheTtlSeconds * TicksPerSecond + 1, (CacheTtlSeconds + 1) * TicksPerSecond}

\* A parse that gives up on the rows when one of them fails (mutant of ParseBoard).
ParseBoardAllOrNothing(data) ==
    [location_name |-> data.locationName,
     crs |-> data.crs,
     trains |-> IF \A i \in 1..Len(data.trainServices) : data.trainServices[i].parses
                THEN data.trainServices ELSE <<>>]

\* _parse_board: rows that fail Train(**row) are skipped; the Board model has
\* no field for pulledAt.
ParseBoard(data) ==
    [location_name |-> data.locationName,
     crs |-> data.crs,
     trains |-> SelectSeq(data.trainServices, LAMBDA r : r.parses)]
NoBoard == ParseBoard(NoPayload)

\* _stamp_pulled_at: payload["pulledAt"] = now, to the second
StampPulledAt(payload, t) ==
    [locationName |-> payload.locationName, crs |-> payload.crs,
     trainServices |-> payload.trainServices, pulledAt |-> IntTime(t)]

\* Except clauses that tell no status code from another (mutant of UpstreamError).
UpstreamErrorAllUnavailable(kind) == "RailAPIError(503)"

\* The except clauses of get_board and _get_detailed_board, from the upstream's
\* answer to the exception raised.
UpstreamError(kind) ==
    IF kind \in {"RequestError", "TimeoutException"}
    THEN "RailAPIError(503)"
    ELSE LET status_code == StatusCode(kind) IN
         CASE status_code \in {400, 404} -> "BoardNotFoundError"
           [] status_code \in {401, 403} -> "RailAPIError(503)"
           [] 500 <= status_code /\ status_code < 600 -> "RailAPIError(503)"
           [] OTHER -> "RailAPIError(502)"

\* What a get_board call did, with what the history said when it was made:
\* since/since_use_cache/expected: time, use_cache and board of the last fetch
\* that filled the cache; clean: nothing has changed since that fetch and the
\* backend was up all along.
Call(use_cache, kind, exc, board, from_cache, requests) ==
    [use_cache |-> use_cache, db_up |-> db_up,
     kind |-> kind, exc |-> exc, board |-> board, from_cache |-> from_cache,
     requests |-> requests,
     since |-> fresh.at, since_use_cache |-> fresh.use_cache, expected |-> fresh.board,
     clean |-> fresh.valid /\ ~disturbed]
NoFresh == [valid |-> FALSE, at |-> 0, use_cache |-> FALSE, board |-> NoBoard]
NoCall ==
    [use_cache |-> FALSE, db_up |-> TRUE,
     kind |-> "none", exc |-> None, board |-> NoBoard, from_cache |-> FALSE,
     requests |-> 0, since |-> 0, since_use_cache |-> FALSE, expected |-> NoBoard,
     clean |-> FALSE]

\* The fetch half of get_board (lines 281-353), given the table as the cache
\* lookup left it: the call record and the table afterwards.
FetchBoard(rows, writes, cache_key, use_cache) ==
    IF upstream.kind # "200"
    THEN [call |-> Call(use_cache, "raise", UpstreamError(upstream.kind), NoBoard, FALSE, 1),
          rows |-> rows, writes |-> writes]
    ELSE IF upstream.payload = NoPayload
    THEN \* "if not data": an empty JSON body
         [call |-> Call(use_cache, "raise", "BoardNotFoundError", NoBoard, FALSE, 1),
          rows |-> rows, writes |-> writes]
    ELSE LET data == StampPulledAt(upstream.payload, now)
             board == ParseBoard(data)
         IN  IF board.location_name = None /\ board.crs = None
             THEN [call |-> Call(use_cache, "raise", "BoardNotFoundError", NoBoard, FALSE, 1),
                   rows |-> rows, writes |-> writes]
             ELSE IF ~db_up
             THEN \* cache.set raises sqlite3.OperationalError inside the try:
                  \* "except Exception" turns it into RailAPIError(502)
                  [call |-> Call(use_cache, "raise", "RailAPIError(502)", NoBoard, FALSE, 1),
                   rows |-> rows, writes |-> writes]
             ELSE LET w == SqliteSet(rows, writes, cache_key, data, CacheTtlSeconds, now) IN
                  [call |-> Call(use_cache, "return", None, board, FALSE, 1),
                   rows |-> w.rows, writes |-> w.writes]

\* RailAPIService.get_board(crs_code, use_cache)
GetBoard(crs_code, use_cache) ==
    LET cache_key == "board:" \o Upper(crs_code) IN
    /\ IF use_cache /\ ~db_up
       THEN \* cache.get raises sqlite3.OperationalError outside any try
            /\ last_call' = Call(use_cache, "raise", "sqlite3.OperationalError", NoBoard, FALSE, 0)
            /\ UNCHANGED <<sqlite_rows, writes_since_cleanup, fresh, disturbed>>
       ELSE LET g == IF use_cache
                     THEN SqliteGet(sqlite_rows, cache_key, now)
                     ELSE [hit |-> FALSE, value |-> None, rows |-> sqlite_rows]
            IN  IF g.hit
                THEN /\ last_call' = Call(use_cache, "return", None, ParseBoard(g.value), TRUE, 0)
                     /\ sqlite_rows' = g.rows
                     /\ UNCHANGED <<writes_since_cleanup, fresh, disturbed>>
                ELSE LET f == FetchBoard(g.rows, writes_since_cleanup, cache_key, use_cache) IN
                     /\ last_call' = f.call
                     /\ sqlite_rows' = f.rows
                     /\ writes_since_cleanup' = f.writes
                     /\ IF f.call.kind = "return"
                        THEN /\ fresh' = [valid |-> TRUE, at |-> now, use_cache |-> use_cache,
                                          board |-> f.call.board]
                             /\ disturbed' = FALSE
                        ELSE UNCHANGED <<fresh, disturbed>>
    /\ UNCHANGED <<prefetchVars, followVars, restVars, now, simple_cache, db_up, last_op, ghost, upstream>>

\* RailAPIService.clear_cache(crs_code): cache.delete of the board key, or
\* cache.clear (with the backend down the call raises and changes nothing)
ClearCache(crs_code) ==
    /\ db_up
    /\ sqlite_rows' = IF crs_code # ""
                      THEN SqliteDelete(sqlite_rows, "board:" \o Upper(crs_code), now)
                      ELSE EmptyMap
    /\ disturbed' = TRUE
    /\ last_call' = NoCall
    /\ UNCHANGED <<prefetchVars, followVars, restVars, now, simple_cache, writes_since_cleanup, db_up, last_op,
                   ghost, upstream, fresh>>

\* The rail API starts answering something else.
UpstreamChange(u) ==
    /\ u # upstream
    /\ upstream' = u
    /\ disturbed' = TRUE
    /\ last_call' = NoCall
    /\ UNCHANGED <<prefetchVars, cacheVars, followVars, restVars, fresh>>

\* The database file becomes unusable (locked, unreadable) or usable again.
BackendToggle ==
    /\ db_up' = ~db_up
    /\ disturbed' = TRUE
    /\ last_call' = NoCall
    /\ UNCHANGED <<prefetchVars, followVars, restVars, now, simple_cache, sqlite_rows, writes_since_cleanup,
                   last_op, ghost, upstream, fresh>>

\* Time passes until a later instant of ClockPoints.
AdvanceClock(t) ==
    /\ t \in ClockPoints /\ t > now
    /\ now' = t
    /\ last_call' = NoCall
    /\ UNCHANGED <<prefetchVars, followVars, restVars, simple_cache, sqlite_rows, writes_since_cleanup, db_up,
                   last_op, ghost, upstream, fresh, disturbed>>

\* The stations the followed service calls at, in order, and its id.
Route == <<"DKG", "LHD", "WAT">>
Stations == {"DKG", "LHD", "WAT"}
FollowedService == "S1"

NoFollow ==
    [kind |-> "none", crs |-> None, use_cache |-> FALSE, limit |-> 0, hint |-> None,
     cached |-> <<>>,
     candidates |-> <<>>, log |-> <<>>, result |-> None, service_crs |-> None, exc |-> None]

\* ---- the remaining components at rest --------------------------------
NoTime == -1     \* an Optional datetime / Optional int that is None

NoClick ==
    [predictions |-> <<>>, line_id |-> "", to_stop_id |-> "", direction |-> None,
     trip_id |-> None, vehicle_id |-> None, expected_arrival |-> None,
     called |-> FALSE, found |-> FALSE, index |-> 0]

\* fallback: whether the hub's cached resolution is the fallback of a failed
\* lookup, and when it was stored; since: the same as the call found it (history)
NoFallback == [failed |-> FALSE, at |-> 0]
NoResolve ==
    [kind |-> "none", stop_point_id |-> "", lookup |-> "none", requests |-> 0,
     hit |-> FALSE, result |-> "", exc |-> None, fallback |-> NoFallback, since |-> NoFallback]

NoPage == [kind |-> "none", crs |-> "", from_cache |-> FALSE, trains |-> <<>>, scheduled |-> <<>>]

\* history: stored, stored_at, stored_result are the last call so far that ran
\* the follow resolution, got a service and cached it; prev_* are the same
\* before the call recorded here.
NoCachedFollow ==
    [kind |-> "none", crs |-> "", service_id |-> "", use_cache |-> FALSE, hit |-> FALSE,
     resolutions |-> 0, found |-> FALSE, result |-> None, exc |-> None, at |-> 0,
     stored |-> FALSE, stored_at |-> 0, stored_result |-> None,
     prev_stored |-> FALSE, prev_at |-> 0, prev_result |-> None]

\* get_service_route_detail: the arguments, what the lookups of the call give
\* (predictions, route sequences per direction, timetable), and the outcome
NoRoute ==
    [kind |-> "none", exc |-> None, line_id |-> "", from_stop_id |-> "", to_stop_id |-> "",
     direction |-> None, predictions |-> [exc |-> None, items |-> <<>>],
     route |-> [d \in {"inbound", "outbound"} |-> [exc |-> None, sequences |-> <<>>]],
     timetable |-> [exc |-> None, intervals |-> <<>>],
     tried |-> <<>>, segment |-> <<>>, selected_direction |-> None, result_direction |-> None,
     resolution_mode |-> "", stops |-> <<>>]

\* TflAPIService.get_board: the arrivals payload and the line statuses the
\* call got, the board it returned, and the board under the stop's cache key
NoTflBoard ==
    [kind |-> "none", exc |-> None, from_cache |-> FALSE,
     predictions_payload |-> <<>>, status |-> <<>>,
     trains |-> <<>>, line_status |-> <<>>,
     cached |-> [present |-> FALSE, trains |-> <<>>, line_status |-> <<>>]]

\* _get_json: the credentials of the service, the request and what the TfL
\* API does with it, and how the call ended
NoTflRequest ==
    [app_key |-> "test-key", app_id |-> "", kind |-> "none", path |-> "", params |-> {},
     answer |-> [kind |-> "none", status_code |-> 0, json |-> TRUE],
     request_params |-> {}, requests |-> 0, exc |-> None, status_code |-> 0]

\* the processes that share the cache database
Workers == {"w1", "w2"}

\* a worker's SQLiteCache call: idle, or inside get between the SELECT that
\* read an expired row and the DELETE; what its last get or set was; its own
\* _writes_since_cleanup; seen is the last completed set of the key when the
\* get ran its SELECT (history)
NoWorker ==
    [pc |-> "idle", key |-> None, select_now |-> 0, last |-> "none", result |-> None,
     writes |-> 0, seen |-> NoHistory]

ClickIdle == click = NoClick
ResolveIdle ==
    /\ stop_upstream = [kind |-> "404", children |-> <<>>]
    /\ resolve_call = NoResolve
PageIdle == page_call = NoPage
CachedFollowIdle == cached_follow = NoCachedFollow
DetailIdle == route_call = NoRoute /\ tfl_board_call = NoTflBoard
MiscIdle == tfl_request = NoTflRequest /\ workers = [w \in Workers |-> NoWorker]
RestIdle == ClickIdle /\ ResolveIdle /\ PageIdle /\ CachedFollowIdle /\ DetailIdle /\ MiscIdle

FollowIdle ==
    /\ detail_upstream = [st \in Stations |-> "absent"]
    /\ follow_call = NoFollow

BoardIdle ==
    /\ upstream = [kind |-> "200", payload |-> NoPayload]
    /\ last_call = NoCall
    /\ fresh = NoFresh
    /\ disturbed = FALSE
    /\ FollowIdle

InitBoard ==
    /\ PrefetchIdle
    /\ CacheIdle
    /\ FollowIdle
    /\ RestIdle
    /\ upstream \in UpstreamStates
    /\ last_call = NoCall
    /\ fresh = NoFresh
    /\ disturbed = FALSE

NextBoard ==
    \/ \E crs \in BoardCrsInputs, use_cache \in BOOLEAN : GetBoard(crs, use_cache)
    \/ \E crs \in BoardCrsInputs \cup {""} : ClearCache(crs)
    \/ \E u \in UpstreamStates : UpstreamChange(u)
    \/ BackendToggle
    \/ \E t \in ClockPoints : AdvanceClock(t)

SpecBoard == InitBoard /\ [][NextBoard]_vars

InitCache == PrefetchIdle /\ CacheIdle /\ BoardIdle /\ RestIdle

NextCache ==
    \/ \E k \in CacheKeys : CacheGet(k)
    \/ \E k \in CacheKeys, v \in CacheValues, ttl \in TtlInputs : CacheSet(k, v, ttl)
    \/ \E k \in CacheKeys : CacheDelete(k)
    \/ CacheClear
    \/ CacheSize
    \/ Tick

SpecCache == InitCache /\ [][NextCache]_vars

\* A second passes: the operations fall on whole seconds.
TickSecond ==
    /\ now + TicksPerSecond <= MaxTime * TicksPerSecond
    /\ now' = now + TicksPerSecond
    /\ last_op' = NoOp
    /\ UNCHANGED <<prefetchVars, boardVars, followVars, restVars, simple_cache, sqlite_rows,
                   writes_since_cleanup, db_up, ghost>>

NextCacheSeconds ==
    \/ \E k \in CacheKeys : CacheGet(k)
    \/ \E k \in CacheKeys, v \in CacheValues, ttl \in TtlInputs : CacheSet(k, v, ttl)
    \/ \E k \in CacheKeys : CacheDelete(k)
    \/ CacheClear
    \/ CacheSize
    \/ TickSecond

SpecCacheSeconds == InitCache /\ [][NextCacheSeconds]_vars

\* ------------------------------------------------------------------------
\* app/services/rail_api.py : get_service_route_following over the SQLite cache
\* ------------------------------------------------------------------------
\* What GetArrDepBoardWithDetails can answer for a station: a board without
\* the service, a board with it, a board with it whose crs is the empty
\* string, or a 500.
DetailAnswers == {"absent", "present", "present-blank", "500"}

Range(seq) == { seq[i] : i \in 1..Len(seq) }
Index(seq, x) == CHOOSE i \in 1..Len(seq) : seq[i] = x
\* seq.index(x)
FirstPosition(seq, x) ==
    CHOOSE i \in 1..Len(seq) : seq[i] = x /\ \A j \in 1..(i - 1) : seq[j] # x
Max(a, b) == IF a >= b THEN a ELSE b
Min(a, b) == IF a <= b THEN a ELSE b

\* A row of a detailed board: the service as seen from station st.
ServiceRow(st) ==
    [serviceID |-> FollowedService,
     previousCallingPoints |-> SubSeq(Route, 1, Index(Route, st) - 1),
     subsequentCallingPoints |-> SubSeq(Route, Index(Route, st) + 1, Len(Route))]
OtherRow == [serviceID |-> "S9", previousCallingPoints |-> <<>>, subsequentCallingPoints |-> <<>>]

\* response.json() of the detailed board of st under the answer a
DetailPayload(st, a) ==
    [crs |-> IF a = "present-blank" THEN "" ELSE st,
     trainServices |-> IF a = "absent" THEN <<OtherRow>> ELSE <<OtherRow, ServiceRow(st)>>]

\* _normalize_crs
NormalizeCrs(value) ==
    IF value = None \/ value = "" THEN None
    ELSE LET crs == Upper(Strip(value)) IN
         IF IsAlpha3(crs) THEN crs ELSE None

\* An add_candidate without the seen set (mutant of AddCandidate).
AddCandidateAgain(candidates, value) ==
    LET crs == NormalizeCrs(value) IN
    IF crs # None THEN Append(candidates, crs) ELSE candidates

\* add / add_candidate: append the normalized code unless empty or seen
AddCandidate(candidates, value) ==
    LET crs == NormalizeCrs(value) IN
    IF crs # None /\ crs \notin Range(candidates) THEN Append(candidates, crs) ELSE candidates

RECURSIVE AddCandidates(_, _)
AddCandidates(candidates, values) ==
    IF values = <<>> THEN candidates
    ELSE AddCandidates(AddCandidate(candidates, Head(values)), Tail(values))

\* _service_route_cache_key, _service_last_seen_cache_key, the detailed board's key
ServiceRouteCacheKey(service_id) == "service_route_candidates:" \o service_id
ServiceLastSeenCacheKey(service_id) == "service_last_seen_crs:" \o service_id
DetailsCacheKey(crs_code) == "board_details:" \o crs_code

\* _service_tracking_ttl
ServiceTrackingTtl == Max(CacheTtlSeconds * 6, 3600)

\* details_cache_ttl = min(self.cache_ttl, 60)
DetailsCacheTtl == Min(CacheTtlSeconds, 60)

\* max_stations_to_check: int = 10
MaxStationsToCheck == 10

\* The cache as the follow code threads it: the table and the write counter.
Store(rows, writes) == [rows |-> rows, writes |-> writes]

\* The element of a one-element set.  The({ e : x \in {v} }) is "e where x is
\* v", with v computed once.
The(S) == CHOOSE x \in S : TRUE

\* A detailed-board fetch that drops the station's snapshot when the upstream
\* fails (mutant of GetDetailedBoard).
GetDetailedBoardDropOnError(c, crs_code, use_cache) ==
    The({ IF g.hit
          THEN [kind |-> "ok", exc |-> None, data |-> g.value, from_cache |-> TRUE,
                asked |-> FALSE, c |-> Store(g.rows, c.writes)]
          ELSE IF detail_upstream[Upper(crs_code)] = "500"
          THEN [kind |-> "raise", exc |-> UpstreamError("500"), data |-> None,
                from_cache |-> FALSE, asked |-> TRUE,
                c |-> Store(SqliteDelete(g.rows, DetailsCacheKey(Upper(crs_code)), now),
                            c.writes)]
          ELSE LET payload == DetailPayload(Upper(crs_code), detail_upstream[Upper(crs_code)])
                   data == [crs |-> payload.crs, trainServices |-> payload.trainServices,
                            pulledAt |-> IntTime(now)]
               IN  [kind |-> "ok", exc |-> None, data |-> data, from_cache |-> FALSE,
                    asked |-> TRUE,
                    c |-> SqliteSet(g.rows, c.writes, DetailsCacheKey(Upper(crs_code)), data,
                                    DetailsCacheTtl, now)]
        : g \in { IF use_cache
                  THEN SqliteGet(c.rows, DetailsCacheKey(Upper(crs_code)), now)
                  ELSE [hit |-> FALSE, value |-> None, rows |-> c.rows] } })

\* _get_detailed_board(crs_code, use_cache): the payload or the exception,
\* whether it came from the cache, whether the upstream was asked.
GetDetailedBoard(c, crs_code, use_cache) ==
    The({ IF g.hit
          THEN [kind |-> "ok", exc |-> None, data |-> g.value, from_cache |-> TRUE,
                asked |-> FALSE, c |-> Store(g.rows, c.writes)]
          ELSE IF detail_upstream[Upper(crs_code)] = "500"
          THEN [kind |-> "raise", exc |-> UpstreamError("500"), data |-> None,
                from_cache |-> FALSE, asked |-> TRUE, c |-> Store(g.rows, c.writes)]
          ELSE LET payload == DetailPayload(Upper(crs_code), detail_upstream[Upper(crs_code)])
                   data == [crs |-> payload.crs, trainServices |-> payload.trainServices,
                            pulledAt |-> IntTime(now)]
               IN  [kind |-> "ok", exc |-> None, data |-> data, from_cache |-> FALSE,
                    asked |-> TRUE,
                    c |-> SqliteSet(g.rows, c.writes, DetailsCacheKey(Upper(crs_code)), data,
                                    DetailsCacheTtl, now)]
        : g \in { IF use_cache
                  THEN SqliteGet(c.rows, DetailsCacheKey(Upper(crs_code)), now)
                  ELSE [hit |-> FALSE, value |-> None, rows |-> c.rows] } })

\* _extract_service_from_detailed_payload: the first row of that serviceID,
\* with the board's crs
NoService == [found |-> FALSE, crs |-> None, previous |-> <<>>, subsequent |-> <<>>]
ExtractService(data, service_id) ==
    LET matching == SelectSeq(data.trainServices, LAMBDA r : r.serviceID = service_id) IN
    IF matching = <<>>
    THEN NoService
    ELSE [found |-> TRUE, crs |-> data.crs,
          previous |-> Head(matching).previousCallingPoints,
          subsequent |-> Head(matching).subsequentCallingPoints]

\* _build_service_crs_candidates
BuildServiceCrsCandidates(service) ==
    AddCandidates(AddCandidate(AddCandidates(<<>>, service.previous), service.crs),
                  service.subsequent)

\* A tracking update that leaves the last-seen station alone (mutant of
\* CacheServiceTracking).
CacheServiceTrackingNoLastSeen(c, service_id, service) ==
    IF BuildServiceCrsCandidates(service) # <<>>
    THEN SqliteSet(c.rows, c.writes, ServiceRouteCacheKey(service_id),
                   BuildServiceCrsCandidates(service), ServiceTrackingTtl, now)
    ELSE c

\* A tracking update that stores the first calling point as the last-seen
\* station (mutant of CacheServiceTracking).
CacheServiceTrackingFirstPoint(c, service_id, service) ==
    IF BuildServiceCrsCandidates(service) # <<>>
    THEN The({ SqliteSet(c1.rows, c1.writes, ServiceLastSeenCacheKey(service_id),
                         Head(BuildServiceCrsCandidates(service)), ServiceTrackingTtl, now)
             : c1 \in { SqliteSet(c.rows, c.writes, ServiceRouteCacheKey(service_id),
                                  BuildServiceCrsCandidates(service), ServiceTrackingTtl,
                                  now) } })
    ELSE c

\* _cache_service_tracking
CacheServiceTracking(c, service_id, service) ==
    The({ IF NormalizeCrs(service.crs) # None
          THEN SqliteSet(c1.rows, c1.writes, ServiceLastSeenCacheKey(service_id),
                         NormalizeCrs(service.crs), ServiceTrackingTtl, now)
          ELSE c1
        : c1 \in { IF BuildServiceCrsCandidates(service) # <<>>
                   THEN SqliteSet(c.rows, c.writes, ServiceRouteCacheKey(service_id),
                                  BuildServiceCrsCandidates(service), ServiceTrackingTtl, now)
                   ELSE c } })

\* _get_cached_service_route_candidates
GetCachedServiceRouteCandidates(c, service_id) ==
    The({ [candidates |-> IF g.hit THEN AddCandidates(<<>>, g.value) ELSE <<>>,
           c |-> Store(g.rows, c.writes)]
        : g \in { SqliteGet(c.rows, ServiceRouteCacheKey(service_id), now) } })

\* _get_cached_last_seen_crs
GetCachedLastSeenCrs(c, service_id) ==
    The({ [crs |-> IF g.hit THEN NormalizeCrs(g.value) ELSE None,
           c |-> Store(g.rows, c.writes)]
        : g \in { SqliteGet(c.rows, ServiceLastSeenCacheKey(service_id), now) } })

\* One line of the log of a follow call: a _get_detailed_board call.
Fetch(crs_code, use_cache, b, found) ==
    [crs |-> Upper(crs_code), use_cache |-> use_cache, from_cache |-> b.from_cache,
     asked |-> b.asked, ok |-> b.kind # "raise", found |-> found]

\* get_service_route: if use_cache and detailed_board.from_cache
RefetchWanted(use_cache, from_cache) == use_cache /\ from_cache

\* get_service_route, after the bypass-cache fetch b2 that followed b1
GetServiceRouteRefetched(b1, b2, crs_code, service_id) ==
    IF b2.kind = "raise"
    THEN [kind |-> "raise", exc |-> b2.exc, service |-> NoService, c |-> b2.c,
          log |-> <<Fetch(crs_code, TRUE, b1, FALSE), Fetch(crs_code, FALSE, b2, FALSE)>>]
    ELSE The({ [kind |-> "return", exc |-> None, service |-> s2,
                c |-> IF s2.found THEN CacheServiceTracking(b2.c, service_id, s2) ELSE b2.c,
                log |-> <<Fetch(crs_code, TRUE, b1, FALSE), Fetch(crs_code, FALSE, b2, s2.found)>>]
             : s2 \in { ExtractService(b2.data, service_id) } })

\* A get_service_route that raises when the board lacks the service (mutant of
\* GetServiceRouteFetched).
GetServiceRouteMissRaises(b1, crs_code, service_id, use_cache) ==
    IF b1.kind = "raise"
    THEN [kind |-> "raise", exc |-> b1.exc, service |-> NoService, c |-> b1.c,
          log |-> <<Fetch(crs_code, use_cache, b1, FALSE)>>]
    ELSE The({ IF s1.found
               THEN [kind |-> "return", exc |-> None, service |-> s1,
                     c |-> CacheServiceTracking(b1.c, service_id, s1),
                     log |-> <<Fetch(crs_code, use_cache, b1, TRUE)>>]
               ELSE [kind |-> "raise", exc |-> "ServiceNotFoundError", service |-> s1,
                     c |-> b1.c, log |-> <<Fetch(crs_code, use_cache, b1, FALSE)>>]
             : s1 \in { ExtractService(b1.data, service_id) } })

\* get_service_route, after its first _get_detailed_board call b1
GetServiceRouteFetched(b1, crs_code, service_id, use_cache) ==
    IF b1.kind = "raise"
    THEN [kind |-> "raise", exc |-> b1.exc, service |-> NoService, c |-> b1.c,
          log |-> <<Fetch(crs_code, use_cache, b1, FALSE)>>]
    ELSE The({ IF s1.found
               THEN [kind |-> "return", exc |-> None, service |-> s1,
                     c |-> CacheServiceTracking(b1.c, service_id, s1),
                     log |-> <<Fetch(crs_code, use_cache, b1, TRUE)>>]
               ELSE IF RefetchWanted(use_cache, b1.from_cache)
               THEN The({ GetServiceRouteRefetched(b1, b2, crs_code, service_id)
                        : b2 \in { GetDetailedBoard(b1.c, crs_code, FALSE) } })
               ELSE [kind |-> "return", exc |-> None, service |-> s1, c |-> b1.c,
                     log |-> <<Fetch(crs_code, use_cache, b1, FALSE)>>]
             : s1 \in { ExtractService(b1.data, service_id) } })

\* get_service_route(crs_code, service_id, use_cache)
GetServiceRoute(c, crs_code, service_id, use_cache) ==
    The({ GetServiceRouteFetched(b1, crs_code, service_id, use_cache)
        : b1 \in { GetDetailedBoard(c, crs_code, use_cache) } })

\* A loop that goes on to the next candidate when a fetch raises (mutant of
\* FollowLoop).
RECURSIVE FollowLoopSkipsErrors(_, _, _, _, _)
FollowLoopSkipsErrors(c, stations, service_id, use_cache, log) ==
    IF stations = <<>>
    THEN [kind |-> "return", exc |-> None, result |-> None, service_crs |-> None,
          c |-> c, log |-> log]
    ELSE The({ IF r.kind # "raise" /\ r.service.found
               THEN [kind |-> "return", exc |-> None, result |-> Head(stations),
                     service_crs |-> r.service.crs,
                     c |-> CacheServiceTracking(r.c, service_id, r.service),
                     log |-> log \o r.log]
               ELSE FollowLoopSkipsErrors(r.c, Tail(stations), service_id, use_cache,
                                          log \o r.log)
             : r \in { GetServiceRoute(c, Head(stations), service_id, use_cache) } })

\* The loop of get_service_route_following over candidate_stations
RECURSIVE FollowLoop(_, _, _, _, _)
FollowLoop(c, stations, service_id, use_cache, log) ==
    IF stations = <<>>
    THEN [kind |-> "return", exc |-> None, result |-> None, service_crs |-> None,
          c |-> c, log |-> log]
    ELSE The({ IF r.kind = "raise"
               THEN [kind |-> "raise", exc |-> r.exc, result |-> None, service_crs |-> None,
                     c |-> r.c, log |-> log \o r.log]
               ELSE IF r.service.found
               THEN [kind |-> "return", exc |-> None, result |-> Head(stations),
                     service_crs |-> r.service.crs,
                     c |-> CacheServiceTracking(r.c, service_id, r.service),
                     log |-> log \o r.log]
               ELSE FollowLoop(r.c, Tail(stations), service_id, use_cache, log \o r.log)
             : r \in { GetServiceRoute(c, Head(stations), service_id, use_cache) } })

\* A slice that lets one station more through (mutant of FirstStations).
FirstStationsAndOne(candidate_stations, max_stations_to_check) ==
    SubSeq(candidate_stations, 1, Min(Len(candidate_stations), max_stations_to_check + 1))

\* candidate_stations[:max_stations_to_check]
FirstStations(candidate_stations, max_stations_to_check) ==
    SubSeq(candidate_stations, 1, Min(Len(candidate_stations), max_stations_to_check))

\* RailAPIService.get_service_route_following(crs_code, service_id, use_cache,
\* max_stations_to_check)
get_service_route_following(crs_code, service_id, use_cache, max_stations_to_check) ==
    /\ db_up
    /\ \E hint \in { GetCachedLastSeenCrs(Store(sqlite_rows, writes_since_cleanup), service_id) } :
       \E cached \in { GetCachedServiceRouteCandidates(hint.c, service_id) } :
       \E candidate_stations \in
            { AddCandidates(AddCandidate(AddCandidate(<<>>, hint.crs), Upper(crs_code)),
                            cached.candidates) } :
       \E f \in { FollowLoop(cached.c,
                             FirstStations(candidate_stations, max_stations_to_check),
                             service_id, use_cache, <<>>) } :
           /\ sqlite_rows' = f.c.rows
           /\ writes_since_cleanup' = f.c.writes
           /\ follow_call' =
                 [kind |-> f.kind, crs |-> Upper(crs_code), use_cache |-> use_cache,
                  limit |-> max_stations_to_check,
                  hint |-> hint.crs, cached |-> cached.candidates,
                  candidates |-> candidate_stations, log |-> f.log,
                  result |-> f.result, service_crs |-> f.service_crs, exc |-> f.exc]
    /\ UNCHANGED <<prefetchVars, boardVars, restVars, now, simple_cache, db_up, last_op, ghost,
                   detail_upstream>>

\* The detailed board of a station starts answering something else; at most
\* one station at a time answers with a blank crs or a 500.
DetailUpstreamChange(st, a) ==
    /\ detail_upstream[st] # a
    /\ a \in {"present-blank", "500"} =>
          \A other \in Stations \ {st} : detail_upstream[other] \in {"absent", "present"}
    /\ detail_upstream' = [detail_upstream EXCEPT ![st] = a]
    /\ follow_call' = NoFollow
    /\ UNCHANGED <<prefetchVars, cacheVars, boardVars, restVars>>

FollowCrsInputs == {"DKG", "lhd", "WAT"}

\* get_service_route_following as a function of the cache it is given
GetServiceRouteFollowing(c, crs_code, service_id, use_cache) ==
    The({ The({ The({ FollowLoop(cached.c,
                                 FirstStations(candidate_stations, MaxStationsToCheck),
                                 service_id, use_cache, <<>>)
                      : candidate_stations \in
                          { AddCandidates(AddCandidate(AddCandidate(<<>>, hint.crs),
                                                       Upper(crs_code)),
                                          cached.candidates) } })
                : cached \in { GetCachedServiceRouteCandidates(hint.c, service_id) } })
          : hint \in { GetCachedLastSeenCrs(c, service_id) } })

InitFollow == PrefetchIdle /\ CacheIdle /\ BoardIdle /\ RestIdle

NextFollow ==
    \/ \E crs \in FollowCrsInputs, use_cache \in BOOLEAN :
          get_service_route_following(crs, FollowedService, use_cache, MaxStationsToCheck)
    \/ \E st \in Stations, a \in DetailAnswers : DetailUpstreamChange(st, a)

SpecFollow == InitFollow /\ [][NextFollow]_vars

\* Follow calls that pass a max_stations_to_check smaller than the route is
\* long, over boards that answer normally.
StationLimitInputs == {1, 2}

NextFollowLimit ==
    \/ \E crs \in FollowCrsInputs, use_cache \in BOOLEAN, limit \in StationLimitInputs :
          get_service_route_following(crs, FollowedService, use_cache, limit)
    \/ \E st \in Stations, a \in {"absent", "present"} : DetailUpstreamChange(st, a)

SpecFollowLimit == InitFollow /\ [][NextFollowLimit]_vars

\* ---- the four schedule_* operations (synchronous, called from a request) ----
schedule_nr_service_prefetch(crs, service_id) ==
    /\ Len(tasks) < MaxTasks
    /\ tasks' = ScheduleNrService(tasks, crs, service_id)
    /\ UNCHANGED <<cacheVars, boardVars, followVars, restVars, prefetch_enabled, prefetch_max_concurrency, active_job_keys,
                   sem_value, sem_waiters, calls>>

schedule_nr_board_prefetch(crs) ==
    /\ Len(tasks) < MaxTasks
    /\ tasks' = ScheduleNrBoard(tasks, crs)
    /\ UNCHANGED <<cacheVars, boardVars, followVars, restVars, prefetch_enabled, prefetch_max_concurrency, active_job_keys,
                   sem_value, sem_waiters, calls>>

schedule_tfl_board_prefetch(stop_point_id) ==
    /\ Len(tasks) < MaxTasks
    /\ tasks' = ScheduleTflBoard(tasks, stop_point_id)
    /\ UNCHANGED <<cacheVars, boardVars, followVars, restVars, prefetch_enabled, prefetch_max_concurrency, active_job_keys,
                   sem_value, sem_waiters, calls>>

schedule_tfl_service_prefetch(params) ==
    /\ Len(tasks) < MaxTasks
    /\ tasks' = ScheduleTflService(tasks, params)
    /\ UNCHANGED <<cacheVars, boardVars, followVars, restVars, prefetch_enabled, prefetch_max_concurrency, active_job_keys,
                   sem_value, sem_waiters, calls>>

\* ---- _run_job, one action per stretch of code the event loop runs without
\* suspending.  asyncio.Lock.acquire and Semaphore.acquire return without
\* yielding when they need not wait, and _active_lock is never held across an
\* await, so "await self._claim_job" and "await self._release_job" never suspend.

\* The task starts: claimed = await self._claim_job(job_key); if not claimed:
\* return.  Then async with self._semaphore: a free permit is taken and the
\* body entered at once; otherwise the task queues on the semaphore.
RunJobStart(t) ==
    /\ tasks[t].pc = "created"
    /\ LET c == ClaimJob(active_job_keys, tasks[t].key) IN
         /\ active_job_keys' = c.keys
         /\ IF ~c.claimed
            THEN /\ tasks' = [tasks EXCEPT ![t].pc = "skipped"]
                 /\ UNCHANGED <<sem_value, sem_waiters, calls>>
            ELSE IF SemFree(sem_value, sem_waiters)
            THEN /\ sem_value' = sem_value - 1
                 /\ tasks' = [tasks EXCEPT ![t].pc = "running"]
                 /\ calls' = [calls EXCEPT ![tasks[t].key] = @ + 1]
                 /\ UNCHANGED sem_waiters
            ELSE /\ sem_waiters' = Append(sem_waiters, t)
                 /\ tasks' = [tasks EXCEPT ![t].pc = "semwait"]
                 /\ UNCHANGED <<sem_value, calls>>
    /\ UNCHANGED <<cacheVars, boardVars, followVars, restVars, prefetch_enabled, prefetch_max_concurrency>>

\* A waiter that was handed a permit resumes and enters the body.
RunJobResume(t) ==
    /\ tasks[t].pc = "woken"
    /\ tasks' = [tasks EXCEPT ![t].pc = "running"]
    /\ calls' = [calls EXCEPT ![tasks[t].key] = @ + 1]
    /\ UNCHANGED <<cacheVars, boardVars, followVars, restVars, prefetch_enabled, prefetch_max_concurrency,
                   active_job_keys, sem_value, sem_waiters>>

\* The body ends (wait_for returns or raises): a board job that got its board
\* has scheduled its rows; the except clause is chosen; the semaphore is left
\* (Semaphore.release hands the permit to the first waiter); finally the key
\* is released.
RunJobFinish(t, exc, rows) ==
    /\ tasks[t].pc = "running"
    /\ exc \in {"ok"} \cup Raisable(tasks[t].key)
    /\ rows \in (IF exc = "ok" THEN RowsFor(tasks[t].key) ELSE {<<>>})
    /\ LET spawned == IF exc = "ok"
                      THEN RunnerFanOut(tasks, tasks[t].key, rows)
                      ELSE tasks
           result == ExceptHandler(exc)
           ended == [i \in 1..Len(spawned) |->
                       IF i = t THEN [spawned[i] EXCEPT !.pc = "done", !.result = result,
                                                        !.rows = rows]
                       ELSE IF i > Len(tasks) THEN [spawned[i] EXCEPT !.parent = t]
                       ELSE spawned[i]]
       IN  /\ Len(spawned) <= MaxTasks
           /\ active_job_keys' = FinallyRelease(active_job_keys, tasks[t].key, result)
           /\ IF sem_waiters = <<>>
              THEN /\ sem_value' = sem_value + 1
                   /\ tasks' = ended
                   /\ UNCHANGED sem_waiters
              ELSE /\ sem_waiters' = Tail(sem_waiters)
                   /\ tasks' = [ended EXCEPT ![Head(sem_waiters)].pc = "woken"]
                   /\ UNCHANGED sem_value
    /\ UNCHANGED <<cacheVars, boardVars, followVars, restVars, prefetch_enabled, prefetch_max_concurrency, calls>>

\* PrefetchCoordinator.__init__
InitPrefetch ==
    /\ prefetch_enabled \in BOOLEAN
    /\ prefetch_max_concurrency \in 1..MaxConcurrency
    /\ sem_value = prefetch_max_concurrency
    /\ sem_waiters = <<>>
    /\ active_job_keys = {}
    /\ tasks = <<>>
    /\ calls = [k \in JobKeys |-> 0]
    /\ CacheIdle
    /\ BoardIdle
    /\ RestIdle

NextPrefetch ==
    \/ \E crs \in ServiceCrsInputs, sid \in ServiceIdInputs : schedule_nr_service_prefetch(crs, sid)
    \/ \E crs \in CrsInputs : schedule_nr_board_prefetch(crs)
    \/ \E stop \in StopInputs : schedule_tfl_board_prefetch(stop)
    \/ \E p \in TflRowInputs : schedule_tfl_service_prefetch(p)
    \/ \E t \in TaskIds : RunJobStart(t)
    \/ \E t \in TaskIds : RunJobResume(t)
    \/ \E t \in TaskIds, exc \in {"ok"} \cup ExceptionSubclasses,
          rows \in SeqsUpTo(NrRowInputs \cup TflRowInputs, MaxRows) :
            RunJobFinish(t, exc, rows)

SpecPrefetch == InitPrefetch /\ [][NextPrefetch]_vars

\* The event loop runs every ready task, and wait_for bounds every body by
\* prefetch_request_timeout_seconds, so every job step that can run does run.
JobStep(t) ==
    \/ t \in TaskIds /\ RunJobStart(t)
    \/ t \in TaskIds /\ RunJobResume(t)
    \/ t \in TaskIds /\ \E exc \in {"ok"} \cup ExceptionSubclasses : RunJobFinish(t, exc, <<>>)

FairPrefetch == SpecPrefetch /\ \A t \in 1..MaxTasks : WF_vars(JobStep(t))


\* ------------------------------------------------------------------------
\* app/services/tfl_api.py : TflAPIService._match_prediction_for_click
\* ------------------------------------------------------------------------
MaxPredictions == 2    \* predictions in the list handed to the matcher

\* datetime values are minutes after a reference instant.
\* _parse_iso_datetime: None, "" and text that is not ISO 8601 give None.
ParseIsoDatetime(value) ==
    CASE value = "2026-01-01T12:01:00Z" -> 1
      [] value = "2026-01-01T12:02:00Z" -> 2
      [] OTHER -> NoTime

TotalSeconds(minutes) == minutes * 60
Abs(n) == IF n < 0 THEN 0 - n ELSE n

\* (value or "")
OrEmpty(value) == IF value = None THEN "" ELSE value

\* _normalize_direction
NormalizeDirection(value) ==
    IF value = None \/ value = "" THEN None ELSE Lower(Strip(value))

\* float(prediction.time_to_station or 10**9) when a time is missing
FarAway == 1000000000

\* The predictions of a stop: all to the same destination, some of another
\* line; time_to_station is the seconds left until expected_arrival.
PredictionInputs ==
    { [line_id |-> line, destination_naptan_id |-> "940G", direction |-> d, trip_id |-> trip,
       vehicle_id |-> veh, expected_arrival |-> eta, time_to_station |-> TotalSeconds(eta)] :
        line \in {"Victoria", "central"},
        d \in {"inbound", "outbound"},
        trip \in {"trip-a", "trip-b"},
        veh \in {None, "veh-1"},
        eta \in {1, 2} }

\* eta_distance_seconds(prediction)
EtaDistanceSeconds(prediction, target_eta) ==
    IF target_eta # NoTime /\ prediction.expected_arrival # NoTime
    THEN Abs(TotalSeconds(prediction.expected_arrival) - TotalSeconds(target_eta))
    ELSE IF prediction.time_to_station = NoTime \/ prediction.time_to_station = 0
         THEN FarAway
         ELSE prediction.time_to_station

\* min(matches, key=...): the first of the elements with the least key.
\* matches is a sequence of positions in predictions.
MinByEta(predictions, matches, target_eta) ==
    matches[CHOOSE i \in 1..Len(matches) :
              /\ \A j \in 1..Len(matches) :
                    EtaDistanceSeconds(predictions[matches[i]], target_eta)
                      <= EtaDistanceSeconds(predictions[matches[j]], target_eta)
              /\ \A j \in 1..(i - 1) :
                    EtaDistanceSeconds(predictions[matches[j]], target_eta)
                      > EtaDistanceSeconds(predictions[matches[i]], target_eta)]

\* A filter that keeps only the predictions of the hinted direction even when
\* there is none (mutant of ClickCandidates).
ClickCandidatesStrictDirection(predictions, line_id, to_stop_id, direction) ==
    LET target_line == Strip(Lower(line_id))
        target_to == Strip(Lower(to_stop_id))
        target_direction == NormalizeDirection(direction)
        OnLine(i) == Strip(Lower(OrEmpty(predictions[i].line_id))) = target_line
        ToStop(i) == Strip(Lower(OrEmpty(predictions[i].destination_naptan_id))) = target_to
        Directed(i) == NormalizeDirection(predictions[i].direction) = target_direction
        all == [i \in 1..Len(predictions) |-> i]
        on_line == SelectSeq(all, OnLine)
        to_stop == IF target_to # "" THEN SelectSeq(on_line, ToStop) ELSE on_line
        directional == SelectSeq(to_stop, Directed)
    IN  IF target_direction # None THEN directional ELSE to_stop

\* the candidates list after the line, destination and direction filters,
\* as positions in predictions
ClickCandidates(predictions, line_id, to_stop_id, direction) ==
    LET target_line == Strip(Lower(line_id))
        target_to == Strip(Lower(to_stop_id))
        target_direction == NormalizeDirection(direction)
        OnLine(i) == Strip(Lower(OrEmpty(predictions[i].line_id))) = target_line
        ToStop(i) == Strip(Lower(OrEmpty(predictions[i].destination_naptan_id))) = target_to
        Directed(i) == NormalizeDirection(predictions[i].direction) = target_direction
        all == [i \in 1..Len(predictions) |-> i]
        on_line == SelectSeq(all, OnLine)
        to_stop == IF target_to # "" THEN SelectSeq(on_line, ToStop) ELSE on_line
        directional == SelectSeq(to_stop, Directed)
    IN  IF target_direction # None /\ directional # <<>> THEN directional ELSE to_stop

\* A matcher that goes by the nearest expected arrival and ignores the trip
\* and vehicle hints (mutant of MatchPredictionForClick).
MatchPredictionNearestEta(predictions, line_id, to_stop_id, direction, trip_id, vehicle_id, expected_arrival) ==
    LET candidates == ClickCandidates(predictions, line_id, to_stop_id, direction)
    IN  IF candidates = <<>> THEN [found |-> FALSE, index |-> 0]
        ELSE [found |-> TRUE,
              index |-> MinByEta(predictions, candidates, ParseIsoDatetime(expected_arrival))]

\* _match_prediction_for_click: whether a prediction is returned, and its
\* position in predictions (0 for None)
MatchPredictionForClick(predictions, line_id, to_stop_id, direction, trip_id, vehicle_id, expected_arrival) ==
    LET target_eta == ParseIsoDatetime(expected_arrival)
        target_trip == Strip(OrEmpty(trip_id))
        target_vehicle == Strip(OrEmpty(vehicle_id))
        candidates == ClickCandidates(predictions, line_id, to_stop_id, direction)
        TripMatch(i) == Strip(OrEmpty(predictions[i].trip_id)) = target_trip
        VehicleMatch(i) == Strip(OrEmpty(predictions[i].vehicle_id)) = target_vehicle
        trip_matches == SelectSeq(candidates, TripMatch)
        vehicle_matches == SelectSeq(candidates, VehicleMatch)
    IN  IF candidates = <<>> THEN [found |-> FALSE, index |-> 0]
        ELSE IF target_trip # "" /\ trip_matches # <<>>
             THEN [found |-> TRUE, index |-> MinByEta(predictions, trip_matches, target_eta)]
        ELSE IF target_vehicle # "" /\ vehicle_matches # <<>>
             THEN [found |-> TRUE, index |-> MinByEta(predictions, vehicle_matches, target_eta)]
        ELSE IF target_eta # NoTime
             THEN [found |-> TRUE, index |-> MinByEta(predictions, candidates, target_eta)]
        ELSE [found |-> TRUE, index |-> candidates[1]]

\* one call of the matcher on the inputs drawn at the start
MatchClick ==
    /\ ~click.called
    /\ \E m \in {MatchPredictionForClick(click.predictions, click.line_id, click.to_stop_id,
                                         click.direction, click.trip_id, click.vehicle_id,
                                         click.expected_arrival)} :
          click' = [click EXCEPT !.called = TRUE, !.found = m.found, !.index = m.index]
    /\ UNCHANGED <<prefetchVars, cacheVars, boardVars, followVars, cached_follow,
                   stop_upstream, resolve_call, pageVars, detailVars, miscVars>>

InitClick ==
    /\ PrefetchIdle /\ CacheIdle /\ BoardIdle
    /\ ResolveIdle /\ PageIdle /\ CachedFollowIdle /\ DetailIdle /\ MiscIdle
    /\ click \in
         { [NoClick EXCEPT !.predictions = ps, !.line_id = "victoria", !.to_stop_id = "940G",
                           !.direction = d, !.trip_id = trip, !.vehicle_id = veh,
                           !.expected_arrival = eta] :
             ps \in SeqsUpTo(PredictionInputs, MaxPredictions),
             d \in {None, "inbound"},
             trip \in {None, "trip-a"},
             veh \in {None, "veh-1"},
             eta \in {None, "2026-01-01T12:01:00Z"} }

NextClick == MatchClick

SpecClick == InitClick /\ [][NextClick]_vars

\* Calls of the matcher that vary what the filters and the disambiguation
\* look at. Timing: (expected_arrival, time_to_station) of a prediction, with
\* a train that is at the platform (0 seconds) and missing values.
TimingInputs == {<<1, 60>>, <<2, 120>>, <<NoTime, 0>>, <<NoTime, 60>>, <<NoTime, NoTime>>}

\* predictions of one line, destination and direction
PriorityPredictionInputs ==
    { [line_id |-> "Victoria", destination_naptan_id |-> "940G", direction |-> "inbound",
       trip_id |-> trip, vehicle_id |-> veh,
       expected_arrival |-> timing[1], time_to_station |-> timing[2]] :
        trip \in {"trip-a", "trip-b"}, veh \in {None, "veh-1"}, timing \in TimingInputs }

\* predictions of two lines, destinations and directions
FilterPredictionInputs ==
    { [line_id |-> line, destination_naptan_id |-> dest, direction |-> d,
       trip_id |-> "trip-a", vehicle_id |-> None,
       expected_arrival |-> eta, time_to_station |-> TotalSeconds(eta)] :
        line \in {"Victoria", "central"}, dest \in {"940G", "940T"},
        d \in {"inbound", "outbound"}, eta \in {1, 2} }

InitClickHints ==
    /\ PrefetchIdle /\ CacheIdle /\ BoardIdle
    /\ ResolveIdle /\ PageIdle /\ CachedFollowIdle /\ DetailIdle /\ MiscIdle
    /\ \/ click \in
            { [NoClick EXCEPT !.predictions = ps, !.line_id = "victoria", !.to_stop_id = "940G",
                              !.direction = "inbound", !.trip_id = trip, !.vehicle_id = veh,
                              !.expected_arrival = eta] :
                ps \in SeqsUpTo(PriorityPredictionInputs, MaxPredictions),
                trip \in {None, "trip-a"},
                veh \in {None, "veh-1"},
                eta \in {None, "2026-01-01T12:01:00Z"} }
       \/ click \in
            { [NoClick EXCEPT !.predictions = ps, !.line_id = "victoria", !.to_stop_id = to,
                              !.direction = d, !.expected_arrival = eta] :
                ps \in SeqsUpTo(FilterPredictionInputs, MaxPredictions),
                to \in {"", "940G"},
                d \in {None, "inbound"},
                eta \in {None, "2026-01-01T12:01:00Z"} }

SpecClickHints == InitClickHints /\ [][NextClick]_vars



\* ------------------------------------------------------------------------
\* app/routers/pages.py : the NR board page
\* ------------------------------------------------------------------------
\* rows of the dict get_nr_board_data returns, as far as the page reads them
PageTrainInputs ==
    { [service_id |-> s, service_url |-> u] : s \in {"", "S1"}, u \in {"", "/service/S1"} }

\* what get_nr_board_data can return: rows, and whether get_board served the
\* board from the cache
PageBoardInputs ==
    { [trains |-> trains, from_cache |-> from_cache] :
        trains \in SeqsUpTo(PageTrainInputs, MaxRows), from_cache \in BOOLEAN }

\* validate_crs
ValidCrs(crs) == crs # "" /\ IsAlpha3(crs)

\* pages.schedule_nr_board_prefetch(crs, board): the calls it makes to
\* prefetch_service.schedule_nr_service_prefetch, in order
RECURSIVE PageServiceCalls(_, _)
PageServiceCalls(crs, trains) ==
    IF trains = <<>> THEN <<>>
    ELSE LET train == Head(trains)
             rest == PageServiceCalls(crs, Tail(trains))
         IN  IF train.service_id # "" /\ train.service_url # ""
             THEN <<[crs |-> crs, service_id |-> train.service_id]>> \o rest
             ELSE rest

\* the tasks those calls leave behind
RECURSIVE PageSchedule(_, _)
PageSchedule(ts, service_calls) ==
    IF service_calls = <<>> THEN ts
    ELSE PageSchedule(ScheduleNrService(ts, Head(service_calls).crs,
                                        Head(service_calls).service_id),
                      Tail(service_calls))

\* GET /board/nr/{crs}/{view}
board_view_nr(crs, board) ==
    /\ IF ~ValidCrs(crs)
       THEN /\ page_call' = [NoPage EXCEPT !.kind = "404", !.crs = crs]
            /\ UNCHANGED tasks
       ELSE LET service_calls == PageServiceCalls(Upper(crs), board.trains) IN
            /\ Len(PageSchedule(tasks, service_calls)) <= MaxTasks
            /\ tasks' = PageSchedule(tasks, service_calls)
            /\ page_call' = [kind |-> "200", crs |-> Upper(crs),
                             from_cache |-> board.from_cache, trains |-> board.trains,
                             scheduled |-> service_calls]
    /\ UNCHANGED <<cacheVars, boardVars, followVars, cached_follow, tflVars, detailVars, miscVars,
                   prefetch_enabled, prefetch_max_concurrency, active_job_keys,
                   sem_value, sem_waiters, calls>>


\* The board page and the jobs it schedules
InitPage == InitPrefetch

\* The page schedules jobs of one key per station, so no job of this
\* specification ever queues on the semaphore.
NextPage ==
    \/ \E crs \in CrsInputs, board \in PageBoardInputs : board_view_nr(crs, board)
    \/ \E t \in TaskIds : RunJobStart(t)
    \/ \E t \in TaskIds, exc \in {"ok"} \cup ExceptionSubclasses : RunJobFinish(t, exc, <<>>)

SpecPage == InitPage /\ [][NextPage]_vars


\* ------------------------------------------------------------------------
\* RailAPIService.get_service_route_following_cached (called by
\* prefetch.py and pages.py): the follow resolution behind a cache entry per
\* station and service id
\* ------------------------------------------------------------------------
ServiceFollowingCacheKey(crs_code, service_id) ==
    "service_following:" \o Upper(crs_code) \o ":" \o service_id

\* the lookup of the wrapper when use_cache is set
CachedLookup(rows, cache_key, use_cache) ==
    IF use_cache THEN SqliteGet(rows, cache_key, now)
    ELSE [hit |-> FALSE, value |-> None, rows |-> rows]

get_service_route_following_cached(crs_code, service_id, use_cache) ==
    /\ db_up
    /\ \E cache_key \in { ServiceFollowingCacheKey(crs_code, service_id) } :
       \E g \in { CachedLookup(sqlite_rows, cache_key, use_cache) } :
          IF g.hit
          THEN /\ sqlite_rows' = g.rows
               /\ cached_follow' =
                     [cached_follow EXCEPT !.kind = "return", !.crs = Upper(crs_code),
                        !.service_id = service_id, !.use_cache = use_cache, !.hit = TRUE,
                        !.resolutions = 0, !.found = TRUE, !.result = g.value,
                        !.exc = None, !.at = now,
                        !.prev_stored = cached_follow.stored,
                        !.prev_at = cached_follow.stored_at,
                        !.prev_result = cached_follow.stored_result]
               /\ UNCHANGED writes_since_cleanup
          ELSE \E f \in { GetServiceRouteFollowing(Store(g.rows, writes_since_cleanup),
                                                   crs_code, service_id, use_cache) } :
               \E stored \in { IF f.kind = "return" /\ f.result # None
                               THEN SqliteSet(f.c.rows, f.c.writes, cache_key, f.result,
                                              CacheTtlSeconds, now)
                               ELSE f.c } :
                  /\ sqlite_rows' = stored.rows
                  /\ writes_since_cleanup' = stored.writes
                  /\ cached_follow' =
                        [kind |-> f.kind, crs |-> Upper(crs_code), service_id |-> service_id,
                         use_cache |-> use_cache, hit |-> FALSE, resolutions |-> 1,
                         found |-> f.result # None, result |-> f.result, exc |-> f.exc,
                         at |-> now,
                         stored |-> IF f.result # None THEN TRUE ELSE cached_follow.stored,
                         stored_at |-> IF f.result # None THEN now
                                       ELSE cached_follow.stored_at,
                         stored_result |-> IF f.result # None THEN f.result
                                           ELSE cached_follow.stored_result,
                         prev_stored |-> cached_follow.stored,
                         prev_at |-> cached_follow.stored_at,
                         prev_result |-> cached_follow.stored_result]
    /\ UNCHANGED <<prefetchVars, boardVars, followVars, tflVars, pageVars, detailVars, miscVars, now,
                   simple_cache,
                   db_up, last_op, ghost>>

\* time passes between two requests
CachedFollowClock(t) ==
    /\ t \in ClockPoints /\ t > now
    /\ now' = t
    /\ UNCHANGED <<prefetchVars, boardVars, followVars, restVars, simple_cache, sqlite_rows,
                   writes_since_cleanup, db_up, last_op, ghost>>

InitCachedFollow ==
    /\ PrefetchIdle /\ CacheIdle
    /\ upstream = [kind |-> "200", payload |-> NoPayload]
    /\ last_call = NoCall /\ fresh = NoFresh /\ disturbed = FALSE
    /\ follow_call = NoFollow
    /\ detail_upstream \in [Stations -> {"absent", "present"}]
    /\ RestIdle

\* Both callers (the service page and the NR service prefetch job) pass
\* use_cache=True.
NextCachedFollow ==
    \/ \E crs \in BoardCrsInputs :
          get_service_route_following_cached(crs, FollowedService, TRUE)
    \/ \E t \in ClockPoints : CachedFollowClock(t)

SpecCachedFollow == InitCachedFollow /\ [][NextCachedFollow]_vars


\* ------------------------------------------------------------------------
\* app/services/tfl_api.py : TflAPIService.resolve_stop_point_id
\* ------------------------------------------------------------------------
\* settings.tfl_modes
TflModes == {"tube", "overground"}

\* children of the hub in the payload of /StopPoint/{id}
ChildrenInputs ==
    {<<>>,
     <<[id |-> "910GBONDST", modes |-> {"elizabeth-line"}]>>,
     <<[id |-> "910GBONDST", modes |-> {"elizabeth-line"}],
       [id |-> "940GZZLUBND", modes |-> {"tube"}]>>,
     <<[id |-> "", modes |-> {"tube"}], [id |-> "940GZZLUBND", modes |-> {"tube"}]>>}

\* what the TfL API does with a request: a payload, an HTTP error status, a
\* connection error, or no request at all because no app key is configured
StopUpstreamStates ==
    { [kind |-> k, children |-> <<>>] : k \in {"404", "401", "500", "RequestError", "no-app-key"} }
      \cup { [kind |-> "200", children |-> children] : children \in ChildrenInputs }

\* _get_json: the exception it raises for an answer ("None": it returns)
TflGetJsonError(answer) ==
    CASE answer.kind = "404" -> "TflBoardNotFoundError"
      [] answer.kind \in {"401", "500", "RequestError", "no-app-key"} -> "TflAPIError"
      [] OTHER -> None

\* except TflBoardNotFoundError alone (mutant of TflLookupCaught)
TflLookupCaughtNotFoundOnly(exc) == exc \in {"TflBoardNotFoundError"}

\* except (TflAPIError, TflBoardNotFoundError)
TflLookupCaught(exc) == exc \in {"TflAPIError", "TflBoardNotFoundError"}

StopResolutionCacheKey(stop_point_id) == "tfl:resolved_stop:" \o Lower(stop_point_id)

\* normalized.upper().startswith("HUB")
IsHubId(normalized) == Upper(normalized) = "HUBBDS"

\* the loop over the children: the id of the first child that has a configured
\* mode and an id, else the id resolved so far
RECURSIVE FirstModeChild(_, _)
FirstModeChild(children, resolved) ==
    IF children = <<>> THEN resolved
    ELSE IF Head(children).modes \cap TflModes # {} /\ Head(children).id # ""
         THEN Head(children).id
         ELSE FirstModeChild(Tail(children), resolved)

ResolveInputs == {"HUBBDS", "hubbds", "940GZZLUBND", "940gzzlubnd", " "}

resolve_stop_point_id(stop_point_id) ==
    /\ db_up
    /\ \E normalized \in { Strip(stop_point_id) } :
       IF normalized = ""
       THEN /\ resolve_call' = [NoResolve EXCEPT !.kind = "return",
                                  !.stop_point_id = stop_point_id, !.result = stop_point_id,
                                  !.fallback = resolve_call.fallback,
                                  !.since = resolve_call.fallback]
            /\ UNCHANGED <<sqlite_rows, writes_since_cleanup>>
       ELSE \E cached \in { SqliteGet(sqlite_rows, StopResolutionCacheKey(normalized), now) } :
            IF cached.hit /\ cached.value # ""
            THEN /\ resolve_call' = [NoResolve EXCEPT !.kind = "return",
                                       !.stop_point_id = stop_point_id, !.hit = TRUE,
                                       !.result = cached.value,
                                       !.fallback = resolve_call.fallback,
                                       !.since = resolve_call.fallback]
                 /\ sqlite_rows' = cached.rows
                 /\ UNCHANGED writes_since_cleanup
            ELSE \E exc \in { IF IsHubId(normalized) THEN TflGetJsonError(stop_upstream)
                              ELSE None } :
                 IF exc # None /\ ~TflLookupCaught(exc)
                 THEN /\ resolve_call' =
                            [NoResolve EXCEPT !.kind = "raise", !.stop_point_id = stop_point_id,
                               !.lookup = "failed", !.exc = exc,
                               !.requests = IF stop_upstream.kind = "no-app-key" THEN 0 ELSE 1,
                               !.fallback = resolve_call.fallback,
                               !.since = resolve_call.fallback]
                      /\ sqlite_rows' = cached.rows
                      /\ UNCHANGED writes_since_cleanup
                 ELSE \E resolved \in
                          { IF IsHubId(normalized) /\ exc = None
                            THEN FirstModeChild(stop_upstream.children, normalized)
                            ELSE normalized } :
                      \E stored \in { SqliteSet(cached.rows, writes_since_cleanup,
                                                StopResolutionCacheKey(normalized), resolved,
                                                CacheTtlSeconds, now) } :
                         /\ sqlite_rows' = stored.rows
                         /\ writes_since_cleanup' = stored.writes
                         /\ resolve_call' =
                               [kind |-> "return", stop_point_id |-> stop_point_id,
                                lookup |-> IF ~IsHubId(normalized) THEN "none"
                                           ELSE IF exc # None THEN "failed"
                                           ELSE IF resolved = normalized THEN "no-child"
                                           ELSE "child",
                                requests |-> IF ~IsHubId(normalized)
                                                  \/ stop_upstream.kind = "no-app-key"
                                             THEN 0 ELSE 1,
                                hit |-> FALSE, result |-> resolved, exc |-> None,
                                fallback |-> IF ~IsHubId(normalized) THEN resolve_call.fallback
                                             ELSE IF exc # None
                                             THEN [failed |-> TRUE, at |-> now]
                                             ELSE NoFallback,
                                since |-> resolve_call.fallback]
    /\ UNCHANGED <<prefetchVars, boardVars, followVars, cached_follow, pageVars, detailVars, miscVars, click,
                   stop_upstream, now, simple_cache, db_up, last_op, ghost>>

\* the TfL API starts answering something else
StopUpstreamChange(answer) ==
    /\ answer \in StopUpstreamStates /\ answer # stop_upstream
    /\ stop_upstream' = answer
    /\ resolve_call' = [NoResolve EXCEPT !.fallback = resolve_call.fallback,
                                         !.since = resolve_call.fallback]
    /\ UNCHANGED <<prefetchVars, cacheVars, boardVars, followVars, cached_follow, pageVars,
                   detailVars, miscVars,
                   click>>

InitResolve ==
    /\ PrefetchIdle /\ CacheIdle /\ BoardIdle
    /\ ClickIdle /\ PageIdle /\ CachedFollowIdle /\ DetailIdle /\ MiscIdle
    /\ stop_upstream \in StopUpstreamStates
    /\ resolve_call = NoResolve

NextResolve ==
    \/ \E stop_point_id \in ResolveInputs : resolve_stop_point_id(stop_point_id)
    \/ \E answer \in StopUpstreamStates : StopUpstreamChange(answer)

SpecResolve == InitResolve /\ [][NextResolve]_vars

\* time passes between two requests
ResolveClock(t) ==
    /\ t \in ClockPoints /\ t > now
    /\ now' = t
    /\ resolve_call' = [NoResolve EXCEPT !.fallback = resolve_call.fallback,
                                         !.since = resolve_call.fallback]
    /\ UNCHANGED <<prefetchVars, boardVars, followVars, cached_follow, pageVars, detailVars,
                   miscVars, click, stop_upstream, simple_cache, sqlite_rows,
                   writes_since_cleanup, db_up, last_op, ghost>>

\* Resolutions of the hub over time, while the TfL API fails and recovers.
NextResolveClock ==
    \/ \E stop_point_id \in {"HUBBDS", "hubbds"} : resolve_stop_point_id(stop_point_id)
    \/ \E answer \in StopUpstreamStates : StopUpstreamChange(answer)
    \/ \E t \in ClockPoints : ResolveClock(t)

SpecResolveClock == InitResolve /\ [][NextResolveClock]_vars


\* ------------------------------------------------------------------------
\* app/services/tfl_api.py : TflAPIService.get_service_route_detail
\* ------------------------------------------------------------------------
MaxSequences == 2    \* stopPointSequences in a route sequence payload
MaxIntervals == 3    \* intervals in a timetable payload

Directions == {"inbound", "outbound"}

\* int(round(float(eta_value))), eta_value in tenths of a minute: round() takes
\* a half to the even neighbour
RoundMinutes(tenths) ==
    LET whole == tenths \div 10
        rest == tenths % 10
    IN  IF rest < 5 THEN whole
        ELSE IF rest > 5 THEN whole + 1
        ELSE IF whole % 2 = 0 THEN whole ELSE whole + 1

\* _segment_from_sequence taking candidates[0] without the sort by length
\* (mutant of SegmentFromSequence)
SegmentFromFirstSequence(sequences, from_stop_id, to_stop_id) ==
    LET Spans(k) ==
            /\ from_stop_id \in Range(sequences[k]) /\ to_stop_id \in Range(sequences[k])
            /\ FirstPosition(sequences[k], from_stop_id) <= FirstPosition(sequences[k], to_stop_id)
        Segment(k) ==
            SubSeq(sequences[k], FirstPosition(sequences[k], from_stop_id), FirstPosition(sequences[k], to_stop_id))
        candidates == SelectSeq([k \in 1..Len(sequences) |-> k], Spans)
    IN  IF candidates = <<>> THEN <<>> ELSE Segment(candidates[1])

\* _segment_from_sequence: a sequence is the list of the ids of its stopPoint
\* entries; candidates.sort(key=len) is stable, so the first of the shortest
\* segments is returned
SegmentFromSequence(sequences, from_stop_id, to_stop_id) ==
    LET Spans(k) ==
            /\ from_stop_id \in Range(sequences[k]) /\ to_stop_id \in Range(sequences[k])
            /\ FirstPosition(sequences[k], from_stop_id) <= FirstPosition(sequences[k], to_stop_id)
        Segment(k) ==
            SubSeq(sequences[k], FirstPosition(sequences[k], from_stop_id), FirstPosition(sequences[k], to_stop_id))
        candidates == SelectSeq([k \in 1..Len(sequences) |-> k], Spans)
        first_shortest ==
            CHOOSE i \in 1..Len(candidates) :
                /\ \A j \in 1..Len(candidates) :
                      Len(Segment(candidates[i])) <= Len(Segment(candidates[j]))
                /\ \A j \in 1..(i - 1) :
                      Len(Segment(candidates[j])) > Len(Segment(candidates[i]))
    IN  IF candidates = <<>> THEN <<>> ELSE Segment(candidates[first_shortest])

\* _extract_timetable_eta_lookup: the dict as the list of its items in
\* insertion order. intervals is the list of the interval entries of all
\* routes and station intervals, in the order the loops visit them.
RECURSIVE ExtractTimetableEtaLookup(_)
ExtractTimetableEtaLookup(intervals) ==
    IF intervals = <<>> THEN <<>>
    ELSE \* the lookup before the last interval, then the last interval
         The({ LET interval == intervals[Len(intervals)]
                   minutes == RoundMinutes(interval.timeToArrival)
               IN  IF interval.stopId = None \/ interval.timeToArrival = NoTime
                   THEN eta_lookup
                   ELSE IF \A i \in 1..Len(eta_lookup) : eta_lookup[i].stop_id # interval.stopId
                   THEN Append(eta_lookup, [stop_id |-> interval.stopId, minutes |-> minutes])
                   ELSE [i \in 1..Len(eta_lookup) |->
                           IF eta_lookup[i].stop_id = interval.stopId
                              /\ minutes < eta_lookup[i].minutes
                           THEN [eta_lookup[i] EXCEPT !.minutes = minutes]
                           ELSE eta_lookup[i]]
               : eta_lookup \in {ExtractTimetableEtaLookup(SubSeq(intervals, 1, Len(intervals) - 1))} })

\* eta_lookup.get(stop_id)
EtaLookupGet(eta_lookup, stop_id) ==
    IF \E i \in 1..Len(eta_lookup) : eta_lookup[i].stop_id = stop_id
    THEN eta_lookup[CHOOSE i \in 1..Len(eta_lookup) : eta_lookup[i].stop_id = stop_id].minutes
    ELSE NoTime

\* sorted(eta_lookup.items(), key=lambda item: item[1]): a stable sort
SortedByEta(items) ==
    LET Rank(i) ==
            1 + Cardinality({ j \in 1..Len(items) :
                                \/ items[j].minutes < items[i].minutes
                                \/ items[j].minutes = items[i].minutes /\ j < i })
    IN  [r \in 1..Len(items) |-> items[CHOOSE i \in 1..Len(items) : Rank(i) = r]]

\* _fallback_points_from_timetable: the ids of the points returned
FallbackPointsFromTimetable(intervals, from_stop_id, to_stop_id) ==
    LET extracted == ExtractTimetableEtaLookup(intervals)
        eta_lookup ==
            IF EtaLookupGet(extracted, from_stop_id) = NoTime
            THEN Append(extracted, [stop_id |-> from_stop_id, minutes |-> 0])
            ELSE extracted
        ordered == SortedByEta(eta_lookup)
        sorted_ids == [i \in 1..Len(ordered) |-> ordered[i].stop_id]
        ordered_ids ==
            IF to_stop_id \notin Range(sorted_ids) THEN Append(sorted_ids, to_stop_id)
            ELSE sorted_ids
        from_index == FirstPosition(ordered_ids, from_stop_id)
        to_index == FirstPosition(ordered_ids, to_stop_id)
    IN  IF extracted = <<>> THEN <<from_stop_id, to_stop_id>>
        ELSE IF from_index <= to_index THEN SubSeq(ordered_ids, from_index, to_index)
        ELSE ordered_ids

\* A builder that flags by position, the first stop as current and the last
\* as the destination (mutant of BuildServiceStops).
BuildServiceStopsByPosition(points, eta_lookup, from_stop_id, to_stop_id) ==
    LET HasId(stop_id) == stop_id # None /\ stop_id # ""
        with_id == SelectSeq(points, HasId)
    IN  [i \in 1..Len(with_id) |->
           [stop_id |-> with_id[i],
            eta_minutes |-> EtaLookupGet(eta_lookup, with_id[i]),
            is_current |-> i = 1,
            is_destination |-> i = Len(with_id)]]

\* _build_service_stops: a point without an id is skipped
BuildServiceStops(points, eta_lookup, from_stop_id, to_stop_id) ==
    LET HasId(stop_id) == stop_id # None /\ stop_id # ""
        with_id == SelectSeq(points, HasId)
    IN  [i \in 1..Len(with_id) |->
           [stop_id |-> with_id[i],
            eta_minutes |-> EtaLookupGet(eta_lookup, with_id[i]),
            is_current |-> with_id[i] = from_stop_id,
            is_destination |-> with_id[i] = to_stop_id]]

\* directions_to_try
DirectionsToTry(resolved_direction) ==
    IF resolved_direction \in Directions
    THEN <<resolved_direction, IF resolved_direction = "inbound" THEN "outbound" ELSE "inbound">>
    ELSE <<"inbound", "outbound">>


\* get_service_route_detail works on a call c: from_stop_id and to_stop_id are
\* the ids resolve_stop_point_id gave; a lookup of c is what
\* _get_predictions_for_stop, _get_route_sequence or _get_timetable_payload
\* gives, from the cache or from the TfL API: a payload, or the exception
\* _get_json raises. No trip, vehicle or arrival hint is passed.

\* (line_id or "").strip().lower()
RouteLineId(c) == Lower(Strip(OrEmpty(c.line_id)))

\* matched
RouteMatched(c) ==
    MatchPredictionForClick(c.predictions.items, RouteLineId(c), c.to_stop_id,
                            c.direction, None, None, None)

\* resolved_direction
ResolvedDirection(c, matched) ==
    IF NormalizeDirection(c.direction) # None THEN NormalizeDirection(c.direction)
    ELSE IF matched.found
         THEN NormalizeDirection(c.predictions.items[matched.index].direction)
         ELSE None

\* one turn of the loop over directions_to_try: the segment of the route
\* sequence of a direction, empty when the lookup raised a caught exception
SegmentOf(lookup, from_stop_id, to_stop_id) ==
    IF lookup.exc # None THEN <<>>
    ELSE SegmentFromSequence(lookup.sequences, from_stop_id, to_stop_id)

\* an exception the except clauses of the lookups do not catch
Escapes(exc) == exc # None /\ ~TflLookupCaught(exc)

\* the stops built from the selected points, or from the timetable fallback
\* when there are none; the two-stop itinerary when nothing was built
RouteStops(c, selected_points) ==
    LET intervals == IF c.timetable.exc # None THEN <<>> ELSE c.timetable.intervals
        points == IF selected_points # <<>> THEN selected_points
                  ELSE FallbackPointsFromTimetable(intervals, c.from_stop_id, c.to_stop_id)
        built == BuildServiceStops(points, ExtractTimetableEtaLookup(intervals),
                                   c.from_stop_id, c.to_stop_id)
    IN  IF Len(built) > 0 THEN built
        ELSE << [stop_id |-> c.from_stop_id, eta_minutes |-> NoTime,
                 is_current |-> TRUE, is_destination |-> FALSE],
                [stop_id |-> c.to_stop_id, eta_minutes |-> NoTime,
                 is_current |-> FALSE, is_destination |-> TRUE] >>

RouteRaise(exc, tried) ==
    [kind |-> "raise", exc |-> exc, tried |-> tried, segment |-> <<>>,
     selected_direction |-> None, result_direction |-> None,
     resolution_mode |-> "", stops |-> <<>>]

\* the call from the loop over directions_to_try on: first and second are the
\* segments of the two directions (second is looked up only when first is
\* empty)
RouteOutcome(c, matched, resolved_direction, directions_to_try, first, second) ==
    IF Escapes(c.route[directions_to_try[1]].exc)
    THEN RouteRaise(c.route[directions_to_try[1]].exc, <<directions_to_try[1]>>)
    ELSE IF first = <<>> /\ Escapes(c.route[directions_to_try[2]].exc)
    THEN RouteRaise(c.route[directions_to_try[2]].exc, directions_to_try)
    ELSE IF Escapes(c.timetable.exc)
    THEN RouteRaise(c.timetable.exc,
                    IF first # <<>> THEN <<directions_to_try[1]>> ELSE directions_to_try)
    ELSE [kind |-> "return", exc |-> None,
          tried |-> IF first # <<>> THEN <<directions_to_try[1]>> ELSE directions_to_try,
          segment |-> IF first # <<>> THEN first ELSE second,
          selected_direction |-> IF first # <<>> THEN directions_to_try[1]
                                 ELSE IF second # <<>> THEN directions_to_try[2]
                                 ELSE resolved_direction,
          result_direction |-> IF first # <<>> THEN directions_to_try[1]
                               ELSE IF second # <<>> THEN directions_to_try[2]
                               ELSE resolved_direction,
          resolution_mode |-> IF matched.found THEN "exact" ELSE "fallback",
          stops |-> RouteStops(c, IF first # <<>> THEN first ELSE second)]

\* get_service_route_detail on the call c: how it ends
GetServiceRouteDetail(c) ==
    IF RouteLineId(c) = "" THEN RouteRaise("TflBoardNotFoundError", <<>>)
    ELSE IF c.predictions.exc # None THEN RouteRaise(c.predictions.exc, <<>>)
    ELSE The({ The({ RouteOutcome(c, matched, resolved_direction,
                                  DirectionsToTry(resolved_direction),
                                  SegmentOf(c.route[DirectionsToTry(resolved_direction)[1]],
                                            c.from_stop_id, c.to_stop_id),
                                  SegmentOf(c.route[DirectionsToTry(resolved_direction)[2]],
                                            c.from_stop_id, c.to_stop_id))
                     : resolved_direction \in {ResolvedDirection(c, matched)} })
               : matched \in {RouteMatched(c)} })

\* one call of get_service_route_detail on the arguments and lookups drawn at
\* the start
get_service_route_detail ==
    /\ route_call.kind = "none"
    /\ \E r \in {GetServiceRouteDetail(route_call)} :
          route_call' = [route_call EXCEPT
                           !.kind = r.kind, !.exc = r.exc, !.tried = r.tried,
                           !.segment = r.segment,
                           !.selected_direction = r.selected_direction,
                           !.result_direction = r.result_direction,
                           !.resolution_mode = r.resolution_mode, !.stops = r.stops]
    /\ UNCHANGED <<prefetchVars, cacheVars, boardVars, followVars, cached_follow, tflVars,
                   pageVars, tfl_board_call, miscVars>>

\* stop ids of a line: the origin, the destination, one more
StopIdInputs == {"940G", "940T", "940X"}

\* stopPointSequences without a repeated stop
RouteSequenceInputs ==
    { <<"940G", "940T">>, <<"940G", "940X", "940T">>, <<"940T", "940X", "940G">>,
      <<"940X", "940G", "940T">>, <<"940G", "940X">> }

\* timeToArrival in tenths of a minute: 0.4, 1.5 and 2.5 minutes, or missing
TimetableIntervalInputs ==
    { [stopId |-> stop_id, timeToArrival |-> eta] :
        stop_id \in StopIdInputs, eta \in {NoTime, 4, 15, 25} }

\* the predictions of the origin stop that the route calls see
RoutePredictionInputs ==
    { [line_id |-> "Victoria", destination_naptan_id |-> "940T", direction |-> d,
       trip_id |-> "trip-a", vehicle_id |-> None, expected_arrival |-> 1,
       time_to_station |-> 60] : d \in Directions }

\* Calls that vary the direction and the route sequences, and calls that vary
\* the timetable where no route sequence has both stops.
InitRoute ==
    /\ PrefetchIdle /\ CacheIdle /\ BoardIdle
    /\ ClickIdle /\ ResolveIdle /\ PageIdle /\ CachedFollowIdle
    /\ tfl_board_call = NoTflBoard /\ MiscIdle
    /\ \/ route_call \in
            { [NoRoute EXCEPT !.line_id = "Victoria", !.from_stop_id = "940G",
                              !.to_stop_id = "940T", !.direction = d, !.predictions = ps,
                              !.route = [dir \in Directions |->
                                           IF dir = "inbound" THEN inbound ELSE outbound],
                              !.timetable = timetable] :
                d \in {None} \cup Directions,
                ps \in {[exc |-> "TflAPIError", items |-> <<>>]}
                         \cup { [exc |-> None, items |-> items] :
                                  items \in SeqsUpTo(RoutePredictionInputs, 1) },
                inbound \in {[exc |-> "TflAPIError", sequences |-> <<>>]}
                         \cup { [exc |-> None, sequences |-> sequences] :
                                  sequences \in SeqsUpTo(RouteSequenceInputs, MaxSequences) },
                outbound \in {[exc |-> "TflBoardNotFoundError", sequences |-> <<>>]}
                         \cup { [exc |-> None, sequences |-> sequences] :
                                  sequences \in SeqsUpTo(RouteSequenceInputs, MaxSequences) },
                timetable \in {[exc |-> "TflAPIError", intervals |-> <<>>],
                               [exc |-> None,
                                intervals |-> <<[stopId |-> "940T", timeToArrival |-> 15]>>]} }
       \/ route_call \in
            { [NoRoute EXCEPT !.line_id = line, !.from_stop_id = "940G",
                              !.to_stop_id = "940T", !.direction = None,
                              !.route = [dir \in Directions |->
                                           IF dir = "inbound" THEN inbound ELSE outbound],
                              !.timetable = timetable] :
                line \in {"Victoria", " "},
                inbound \in {[exc |-> "TflAPIError", sequences |-> <<>>],
                             [exc |-> "TflBoardNotFoundError", sequences |-> <<>>],
                             [exc |-> None, sequences |-> <<>>]},
                outbound \in {[exc |-> "TflAPIError", sequences |-> <<>>],
                              [exc |-> None, sequences |-> <<>>],
                              [exc |-> None, sequences |-> << <<"940G", "940X">> >>]},
                timetable \in {[exc |-> "TflAPIError", intervals |-> <<>>],
                               [exc |-> "TflBoardNotFoundError", intervals |-> <<>>]}
                         \cup { [exc |-> None, intervals |-> intervals] :
                                  intervals \in SeqsUpTo(TimetableIntervalInputs, MaxIntervals) } }

NextRoute == get_service_route_detail

SpecRoute == InitRoute /\ [][NextRoute]_vars


\* ------------------------------------------------------------------------
\* app/services/tfl_api.py : TflAPIService.get_board, _build_board
\* ------------------------------------------------------------------------
\* items of an Arrivals payload: valid is whether TflPrediction(**item) parses
ArrivalInputs ==
    { [valid |-> TRUE, line_id |-> line, time_to_station |-> tts] :
        line \in {None, "victoria", "central"}, tts \in {0, 60} }
      \cup {[valid |-> FALSE, line_id |-> "victoria", time_to_station |-> 0]}

\* what get_line_status gives: one summary per line of the configured modes
LineStatusInputs ==
    { <<>>, <<[line_id |-> "jubilee"]>>, <<[line_id |-> "victoria"]>>,
      <<[line_id |-> "central"], [line_id |-> "victoria"]>>,
      <<[line_id |-> "central"], [line_id |-> "jubilee"], [line_id |-> "victoria"]>> }

\* _prediction_sort_key: expected_arrival is the same for all items here
PredictionSortKey(prediction) ==
    IF prediction.time_to_station # NoTime THEN prediction.time_to_station ELSE FarAway

\* predictions.sort(key=self._prediction_sort_key): a stable sort
SortedPredictions(predictions) ==
    LET Rank(i) ==
            1 + Cardinality({ j \in 1..Len(predictions) :
                  \/ PredictionSortKey(predictions[j]) < PredictionSortKey(predictions[i])
                  \/ PredictionSortKey(predictions[j]) = PredictionSortKey(predictions[i]) /\ j < i })
    IN  [r \in 1..Len(predictions) |->
           predictions[CHOOSE i \in 1..Len(predictions) : Rank(i) = r]]

\* {p.line_id for p in predictions if p.line_id}
BoardLineIds(predictions) ==
    { predictions[i].line_id : i \in 1..Len(predictions) } \ {None, ""}

\* a board that carries every line status whatever its predictions are
\* (mutant of BuildBoard)
BuildBoardAllStatuses(predictions_payload, line_status) ==
    LET Parses(item) == item.valid
    IN  [trains |-> SortedPredictions(SelectSeq(predictions_payload, Parses)),
         line_status |-> line_status]

\* _build_board: the trains and the line_status of the TflBoard
BuildBoard(predictions_payload, line_status) ==
    LET Parses(item) == item.valid
        Relevant(status) ==
            status.line_id \in BoardLineIds(SelectSeq(predictions_payload, Parses))
    IN  [trains |-> SortedPredictions(SelectSeq(predictions_payload, Parses)),
         line_status |->
            IF BoardLineIds(SelectSeq(predictions_payload, Parses)) # {}
            THEN SelectSeq(line_status, Relevant)
            ELSE line_status]

\* get_board(stop_point_id, use_cache): arrivals and status are what the
\* Arrivals request and get_line_status give, a payload or the exception
\* raised; stop_point_id is the id resolve_stop_point_id gave
tfl_get_board(stop_point_id, use_cache, arrivals, status) ==
    /\ tfl_board_call' =
         IF Strip(stop_point_id) = ""
         THEN [tfl_board_call EXCEPT
                 !.kind = "raise", !.exc = "TflBoardNotFoundError", !.from_cache = FALSE,
                 !.predictions_payload = <<>>, !.status = <<>>,
                 !.trains = <<>>, !.line_status = <<>>]
         ELSE IF use_cache /\ tfl_board_call.cached.present
         THEN [tfl_board_call EXCEPT
                 !.kind = "return", !.exc = None, !.from_cache = TRUE,
                 !.predictions_payload = <<>>, !.status = <<>>,
                 !.trains = tfl_board_call.cached.trains,
                 !.line_status = tfl_board_call.cached.line_status]
         ELSE IF arrivals.exc # None \/ status.exc # None
         THEN [tfl_board_call EXCEPT
                 !.kind = "raise",
                 !.exc = IF arrivals.exc # None THEN arrivals.exc ELSE status.exc,
                 !.from_cache = FALSE,
                 !.predictions_payload = <<>>, !.status = <<>>,
                 !.trains = <<>>, !.line_status = <<>>]
         ELSE The({ [tfl_board_call EXCEPT
                       !.kind = "return", !.exc = None, !.from_cache = FALSE,
                       !.predictions_payload = arrivals.items, !.status = status.items,
                       !.trains = board.trains, !.line_status = board.line_status,
                       !.cached = [present |-> TRUE, trains |-> board.trains,
                                   line_status |-> board.line_status]]
                    : board \in {BuildBoard(arrivals.items, status.items)} })
    /\ UNCHANGED <<prefetchVars, cacheVars, boardVars, followVars, cached_follow, tflVars,
                   pageVars, route_call, miscVars>>

\* the cached board runs out of its TTL
TflBoardCacheExpires ==
    /\ tfl_board_call.cached.present
    /\ tfl_board_call' = [NoTflBoard EXCEPT !.cached.present = FALSE]
    /\ UNCHANGED <<prefetchVars, cacheVars, boardVars, followVars, cached_follow, tflVars,
                   pageVars, route_call, miscVars>>

InitTflBoard ==
    /\ PrefetchIdle /\ CacheIdle /\ BoardIdle
    /\ ClickIdle /\ ResolveIdle /\ PageIdle /\ CachedFollowIdle /\ DetailIdle /\ MiscIdle

NextTflBoard ==
    \/ \E stop_point_id \in {"940G", " "}, use_cache \in BOOLEAN,
          arrivals \in {[exc |-> "TflAPIError", items |-> <<>>]}
                         \cup { [exc |-> None, items |-> items] :
                                  items \in SeqsUpTo(ArrivalInputs, MaxPredictions) },
          status \in {[exc |-> "TflAPIError", items |-> <<>>]}
                         \cup { [exc |-> None, items |-> items] : items \in LineStatusInputs } :
            tfl_get_board(stop_point_id, use_cache, arrivals, status)
    \/ TflBoardCacheExpires

SpecTflBoard == InitTflBoard /\ [][NextTflBoard]_vars


\* ------------------------------------------------------------------------
\* app/services/tfl_api.py : TflAPIService._auth_params, _get_json
\* ------------------------------------------------------------------------
\* what the TfL API does with a request: an HTTP response with a status code
\* and a body that is JSON or not, a connection error (httpx.RequestError) or
\* a timeout (httpx.TimeoutException, a subclass of httpx.RequestError)
TflAnswers ==
    { [kind |-> "response", status_code |-> code, json |-> TRUE] :
        code \in {200, 400, 401, 403, 404, 429, 500, 503} }
      \cup { [kind |-> "response", status_code |-> 200, json |-> FALSE],
             [kind |-> "RequestError", status_code |-> 0, json |-> TRUE],
             [kind |-> "TimeoutException", status_code |-> 0, json |-> TRUE] }

TflPathInputs ==
    {"/StopPoint/940G/Arrivals", "/StopPoint/HUBBDS", "/Line/victoria/Route/Sequence/inbound"}

\* _auth_params: the names of the parameters, or the exception
AuthParams(app_key, app_id) ==
    IF app_key = ""
    THEN [exc |-> "TflAPIError", status_code |-> 503, params |-> {}]
    ELSE [exc |-> None, status_code |-> 0,
          params |-> {"app_key"} \cup (IF app_id # "" THEN {"app_id"} ELSE {})]

\* an error mapping that reports every HTTP error status as an unavailable
\* API (mutant of TflRequestOutcome)
TflRequestAllUnavailable(answer) ==
    IF answer.kind = "response" /\ answer.status_code \in 200..299 /\ answer.json
    THEN [exc |-> None, status_code |-> 0]
    ELSE [exc |-> "TflAPIError", status_code |-> 503]

\* the try block of _get_json: response.raise_for_status(), response.json()
\* and the except clauses
TflRequestOutcome(answer) ==
    IF answer.kind \in {"RequestError", "TimeoutException"}
    THEN [exc |-> "TflAPIError", status_code |-> 503]
    ELSE IF answer.status_code \in 200..299
    THEN IF answer.json THEN [exc |-> None, status_code |-> 0]
         ELSE [exc |-> "TflAPIError", status_code |-> 502]
    ELSE IF answer.status_code = 404
    THEN [exc |-> "TflBoardNotFoundError", status_code |-> 0]
    ELSE IF answer.status_code \in {401, 403}
    THEN [exc |-> "TflAPIError", status_code |-> 503]
    ELSE IF answer.status_code >= 500 /\ answer.status_code < 600
    THEN [exc |-> "TflAPIError", status_code |-> 503]
    ELSE [exc |-> "TflAPIError", status_code |-> 502]

\* _get_json(path, params) while the TfL API answers with answer
tfl_get_json(path, params, answer) ==
    /\ \E auth \in {AuthParams(tfl_request.app_key, tfl_request.app_id)} :
         IF auth.exc # None
         THEN tfl_request' =
                [tfl_request EXCEPT !.kind = "raise", !.path = path, !.params = params,
                                    !.answer = answer, !.request_params = {}, !.requests = 0,
                                    !.exc = auth.exc, !.status_code = auth.status_code]
         ELSE \E outcome \in {TflRequestOutcome(answer)} :
                tfl_request' =
                  [tfl_request EXCEPT
                     !.kind = IF outcome.exc = None THEN "return" ELSE "raise",
                     !.path = path, !.params = params, !.answer = answer,
                     !.request_params = auth.params \cup params, !.requests = 1,
                     !.exc = outcome.exc, !.status_code = outcome.status_code]
    /\ UNCHANGED <<prefetchVars, cacheVars, boardVars, followVars, cached_follow, tflVars,
                   pageVars, detailVars, workers>>

\* the service is built with other credentials (settings.tfl_app_key, tfl_app_id)
TflCredentials(app_key, app_id) ==
    /\ <<app_key, app_id>> # <<tfl_request.app_key, tfl_request.app_id>>
    /\ tfl_request' = [NoTflRequest EXCEPT !.app_key = app_key, !.app_id = app_id]
    /\ UNCHANGED <<prefetchVars, cacheVars, boardVars, followVars, cached_follow, tflVars,
                   pageVars, detailVars, workers>>

InitTflRequest ==
    /\ PrefetchIdle /\ CacheIdle /\ BoardIdle
    /\ ClickIdle /\ ResolveIdle /\ PageIdle /\ CachedFollowIdle /\ DetailIdle /\ MiscIdle

NextTflRequest ==
    \/ \E path \in TflPathInputs, params \in {{}, {"serviceTypes"}}, answer \in TflAnswers :
          tfl_get_json(path, params, answer)
    \/ \E app_key \in {"", "test-key"}, app_id \in {"", "test-id"} :
          TflCredentials(app_key, app_id)

SpecTflRequest == InitTflRequest /\ [][NextTflRequest]_vars


\* ------------------------------------------------------------------------
\* app/middleware/cache.py : SQLiteCache shared by worker processes
\* ------------------------------------------------------------------------
\* Each worker has its own SQLiteCache object on the one database file.  The
\* statements of a call are transactions of their own: get runs its SELECT,
\* and, when the row it read has expired, a DELETE by key and a commit.

\* SQLiteCache.get up to the test of the row: now = int(time.time()), SELECT
WorkerGetSelect(w, key) ==
    /\ workers[w].pc = "idle"
    /\ workers' = [workers EXCEPT ![w] =
         IF key \notin DOMAIN sqlite_rows
         THEN [@ EXCEPT !.key = key, !.select_now = IntTime(now), !.last = "get",
                        !.result = None, !.seen = ghost[key]]
         ELSE IF RowExpired(sqlite_rows[key], now)
         THEN [@ EXCEPT !.pc = "delete", !.key = key, !.select_now = IntTime(now),
                        !.last = "none", !.result = None, !.seen = ghost[key]]
         ELSE [@ EXCEPT !.key = key, !.select_now = IntTime(now), !.last = "get",
                        !.result = JsonLoads(sqlite_rows[key].value), !.seen = ghost[key]]]
    /\ UNCHANGED <<prefetchVars, cacheVars, boardVars, followVars, cached_follow, tflVars,
                   pageVars, detailVars, tfl_request>>

\* SQLiteCache.get from the expired row on: DELETE ... WHERE key = ?, commit,
\* return None
WorkerGetDelete(w) ==
    /\ workers[w].pc = "delete"
    /\ sqlite_rows' = SqliteDelete(sqlite_rows, workers[w].key, now)
    /\ workers' = [workers EXCEPT ![w] = [@ EXCEPT !.pc = "idle", !.last = "get", !.result = None]]
    /\ UNCHANGED <<prefetchVars, boardVars, followVars, cached_follow, tflVars, pageVars,
                   detailVars, tfl_request, now, simple_cache, writes_since_cleanup, db_up,
                   last_op, ghost>>

\* SQLiteCache.set of one worker: the upsert and the commit, then the
\* worker's write counter and its cleanup
WorkerSet(w, key, value, ttl) ==
    /\ workers[w].pc = "idle"
    /\ \E b \in {SqliteSet(sqlite_rows, workers[w].writes, key, value, ttl, now)} :
         /\ sqlite_rows' = b.rows
         /\ workers' = [workers EXCEPT ![w] =
               [@ EXCEPT !.key = key, !.last = "set", !.result = None, !.writes = b.writes]]
    /\ ghost' = [ghost EXCEPT ![key] =
                    [st |-> "set", value |-> value, at |-> now, ttl |-> ttl,
                     held |-> key \in DOMAIN sqlite_rows]]
    /\ UNCHANGED <<prefetchVars, boardVars, followVars, cached_follow, tflVars, pageVars,
                   detailVars, tfl_request, now, simple_cache, writes_since_cleanup, db_up,
                   last_op>>

\* A second passes.
WorkerTick ==
    /\ now + TicksPerSecond <= MaxTime * TicksPerSecond
    /\ now' = now + TicksPerSecond
    /\ UNCHANGED <<prefetchVars, boardVars, followVars, restVars, simple_cache, sqlite_rows,
                   writes_since_cleanup, db_up, last_op, ghost>>

InitWorkers == PrefetchIdle /\ CacheIdle /\ BoardIdle /\ RestIdle

\* the key the workers contend for
SharedKeys == {"k1"}

NextWorkers ==
    \/ \E w \in Workers, k \in SharedKeys : WorkerGetSelect(w, k)
    \/ \E w \in Workers : WorkerGetDelete(w)
    \/ \E w \in Workers, k \in SharedKeys, v \in CacheValues, ttl \in TtlInputs :
          WorkerSet(w, k, v, ttl)
    \/ WorkerTick

SpecWorkers == InitWorkers /\ [][NextWorkers]_vars


\* ------------------------------------------------------------------------
\* app/services/prefetch.py : a board job that fans out inside its permit
\* ------------------------------------------------------------------------
\* Where asyncio.wait_for runs the _runner as a task of its own, the service
\* jobs the _runner created take their first steps before _run_job resumes:
\* they start while the board job still holds its permit.  Where wait_for
\* awaits the _runner directly, _run_job goes from the _runner's return to the
\* release without suspending (RunJobFinish).  Both are steps of this part.

\* A release that returns the permit and wakes nobody (mutant of LeaveSemaphore).
LeaveSemaphoreNoWake(value, waiters) ==
    [value |-> value + 1, waiters |-> waiters, woken |-> 0]

\* asyncio.Semaphore.release on leaving async with self._semaphore: the permit
\* goes back, or to the first waiter, which is woken
LeaveSemaphore(value, waiters) ==
    IF waiters = <<>>
    THEN [value |-> value + 1, waiters |-> waiters, woken |-> 0]
    ELSE [value |-> value, waiters |-> Tail(waiters), woken |-> Head(waiters)]

\* The _runner of a board job got its board and has scheduled the rows'
\* service jobs; _run_job has not resumed yet and holds its permit.
RunJobFanOut(t, rows) ==
    /\ tasks[t].pc = "running"
    /\ Kind(tasks[t].key) \in {"nr-board", "tfl-board"}
    /\ rows \in RowsFor(tasks[t].key)
    /\ \E spawned \in {RunnerFanOut(tasks, tasks[t].key, rows)} :
         /\ Len(spawned) <= MaxTasks
         /\ tasks' = [i \in 1..Len(spawned) |->
                        IF i = t THEN [spawned[i] EXCEPT !.pc = "fanned", !.rows = rows]
                        ELSE IF i > Len(tasks) THEN [spawned[i] EXCEPT !.parent = t]
                        ELSE spawned[i]]
    /\ UNCHANGED <<cacheVars, boardVars, followVars, restVars, prefetch_enabled,
                   prefetch_max_concurrency, active_job_keys, sem_value, sem_waiters, calls>>

\* _run_job resumes after wait_for returned: "done", the semaphore is left,
\* finally the key is released.
RunJobLeave(t) ==
    /\ tasks[t].pc = "fanned"
    /\ \E result \in {ExceptHandler("ok")}, sem \in {LeaveSemaphore(sem_value, sem_waiters)} :
         /\ active_job_keys' = FinallyRelease(active_job_keys, tasks[t].key, result)
         /\ sem_value' = sem.value
         /\ sem_waiters' = sem.waiters
         /\ tasks' = [i \in 1..Len(tasks) |->
                        IF i = t THEN [tasks[i] EXCEPT !.pc = "done", !.result = result]
                        ELSE IF i = sem.woken THEN [tasks[i] EXCEPT !.pc = "woken"]
                        ELSE tasks[i]]
    /\ UNCHANGED <<cacheVars, boardVars, followVars, restVars, prefetch_enabled,
                   prefetch_max_concurrency, calls>>

NextFanOut ==
    \/ \E crs \in CrsInputs : schedule_nr_board_prefetch(crs)
    \/ \E stop \in StopInputs : schedule_tfl_board_prefetch(stop)
    \/ \E crs \in ServiceCrsInputs, sid \in ServiceIdInputs : schedule_nr_service_prefetch(crs, sid)
    \/ \E p \in TflRowInputs : schedule_tfl_service_prefetch(p)
    \/ \E t \in TaskIds : RunJobStart(t)
    \/ \E t \in TaskIds : RunJobResume(t)
    \/ \E t \in TaskIds, exc \in {"ok"} \cup ExceptionSubclasses,
          rows \in SeqsUpTo(NrRowInputs \cup TflRowInputs, MaxRows) :
            RunJobFinish(t, exc, rows)
    \/ \E t \in TaskIds, rows \in SeqsUpTo(NrRowInputs \cup TflRowInputs, MaxRows) :
            RunJobFanOut(t, rows)
    \/ \E t \in TaskIds : RunJobLeave(t)

SpecFanOut == InitPrefetch /\ [][NextFanOut]_vars

\* The event loop runs every ready task and wait_for bounds every body.
FanOutStep(t) ==
    \/ JobStep(t)
    \/ t \in TaskIds /\ RunJobLeave(t)

FairFanOut == SpecFanOut /\ \A t \in 1..MaxTasks : WF_vars(FanOutStep(t))


\* ------------------------------------------------------------------------
\* app/services/rail_api.py : get_board and _get_detailed_board that fail
\* ------------------------------------------------------------------------
\* RailAPIService._get_detailed_board(crs_code, use_cache) called on its own;
\* the call is recorded as a one-line log
get_detailed_board(crs_code, use_cache) ==
    /\ db_up
    /\ \E b \in { GetDetailedBoard(Store(sqlite_rows, writes_since_cleanup), crs_code, use_cache) } :
         /\ sqlite_rows' = b.c.rows
         /\ writes_since_cleanup' = b.c.writes
         /\ follow_call' = [NoFollow EXCEPT !.kind = IF b.kind = "raise" THEN "raise" ELSE "return",
                                            !.crs = Upper(crs_code), !.use_cache = use_cache,
                                            !.log = <<Fetch(crs_code, use_cache, b, FALSE)>>,
                                            !.exc = b.exc]
    /\ UNCHANGED <<prefetchVars, boardVars, restVars, now, simple_cache, db_up, last_op, ghost,
                   detail_upstream>>

\* the answers of the rail API and the instants tried here
FailingUpstreams == { u \in UpstreamStates : u.kind \in {"200", "404", "503", "RequestError"} }
LaterClockPoints == { t \in ClockPoints : t >= 30 * TicksPerSecond }

NextBoardErrors ==
    \/ \E use_cache \in BOOLEAN : GetBoard("lhd", use_cache)
    \/ \E use_cache \in BOOLEAN : get_detailed_board("lhd", use_cache)
    \/ \E u \in FailingUpstreams : UpstreamChange(u)
    \/ \E a \in {"absent", "500"} : DetailUpstreamChange("LHD", a)
    \/ \E t \in LaterClockPoints : AdvanceClock(t)

SpecBoardErrors == InitBoard /\ [][NextBoardErrors]_vars

\* ------------------------------------------------------------------------
\* Properties of the prefetch coordinator
\* ------------------------------------------------------------------------
Entered(job_key) ==
    { t \in TaskIds : tasks[t].key = job_key /\ tasks[t].pc \in {"running", "done"} }
Holders == { t \in TaskIds : tasks[t].pc \in {"woken", "running"} }
Quiescent == \A t \in TaskIds : tasks[t].pc \in {"skipped", "done"}
FailureResults == {"error(tfl)", "timeout", "error"}

C2_ConcurrencyBound ==
    /\ Cardinality(Running) <= prefetch_max_concurrency
    /\ sem_value >= 0
    /\ (sem_waiters # <<>> => sem_value = 0)

\* C2 witness: limit 1, a TfL job in its body and an NR job waiting for the permit.
C2_Witness ==
    /\ prefetch_max_concurrency = 1
    /\ \E t1, t2 \in TaskIds :
        /\ tasks[t1].pc = "running" /\ Kind(tasks[t1].key) \in {"tfl", "tfl-board"}
        /\ tasks[t2].pc = "semwait" /\ Kind(tasks[t2].key) \in {"nr", "nr-board"}

\* C3: a job that claimed its key eventually has released it, whatever the
\* body's outcome; and a job is skipped only while another job of its key is in
\* flight, so after the release the key is claimed again.
C3_ClaimAlwaysReleased ==
    /\ \A t \in 1..MaxTasks :
         (t \in TaskIds /\ tasks[t].pc \in InFlightPcs)
            ~> (t \in TaskIds /\ tasks[t].pc = "done" /\ tasks[t].key \notin active_job_keys)
    /\ [][\A t \in TaskIds :
            (tasks[t].pc = "created" /\ tasks'[t].pc = "skipped")
               => InFlight(tasks[t].key) # {}]_vars

\* C3 witness: a job failed and released its key; a later job of the same key
\* entered the body again.
C3_Witness ==
    \E t1, t2 \in TaskIds :
        /\ t1 < t2 /\ tasks[t1].key = tasks[t2].key
        /\ tasks[t1].pc = "done" /\ tasks[t1].result \in FailureResults
        /\ tasks[t2].pc \in {"running", "done"}
        /\ calls[tasks[t1].key] = 2

\* C4: no outcome of a work body leaves _run_job as an exception, and once
\* every job has ended the coordinator is as it was constructed: every permit
\* free, nobody queued, no key in flight.
C4_FailuresContained ==
    /\ \A t \in TaskIds : tasks[t].result # "raise"
    /\ sem_value + Cardinality(Holders) = prefetch_max_concurrency
    /\ Quiescent => /\ sem_value = prefetch_max_concurrency
                    /\ sem_waiters = <<>>
                    /\ active_job_keys = {}

\* C4 witness: one job of each failing outcome class ended, and a job scheduled
\* after a failed one ran to completion.
C4_Witness ==
    \E t1, t2 \in TaskIds :
        /\ t1 < t2 /\ tasks[t1].key # tasks[t2].key
        /\ tasks[t1].pc = "done" /\ tasks[t1].result = "error"
        /\ tasks[t2].pc = "done" /\ tasks[t2].result = "done"

\* ------------------------------------------------------------------------
\* Properties of the cache backends
\* ------------------------------------------------------------------------
\* C5: after set(k, v, ttl) with ttl > 0 and nothing else done to k, a get(k)
\* before ttl has elapsed returns v from either backend; a get(k) after ttl has
\* elapsed misses in both, and k is then in neither store, so size() does not
\* count it.
C5_Original ==
    (last_op.op = "get" /\ ghost[last_op.key].st = "set" /\ ghost[last_op.key].ttl > 0) =>
        LET h == ghost[last_op.key]
            elapsed == now - h.at
        IN  /\ elapsed < h.ttl * TicksPerSecond =>
                 (last_op.simple = h.value /\ last_op.sqlite = h.value)
            /\ elapsed > h.ttl * TicksPerSecond =>
                 /\ last_op.simple = None /\ last_op.sqlite = None
                 /\ last_op.key \notin DOMAIN simple_cache
                 /\ last_op.key \notin DOMAIN sqlite_rows

\* C6: a get(k) that follows delete(k) with no set(k) in between misses in
\* both backends, whatever ttl the entry had and whether or not it had expired.
C6_DeleteThenMiss ==
    (last_op.op = "get" /\ ghost[last_op.key].st = "deleted") =>
        /\ last_op.simple = None /\ last_op.sqlite = None
        /\ last_op.key \notin DOMAIN simple_cache
        /\ last_op.key \notin DOMAIN sqlite_rows

\* C6 witness: an entry set, deleted and read at one instant, so that it was
\* live when it was deleted.
C6_Witness ==
    /\ last_op.op = "get"
    /\ ghost[last_op.key].st = "deleted"
    /\ ghost[last_op.key].value \in CacheValues
    /\ ghost[last_op.key].at = now
    /\ last_op.sqlite = None

\* ------------------------------------------------------------------------
\* Properties of get_board
\* ------------------------------------------------------------------------
\* C7: with the cache backend unavailable, the cache lookup of
\* get_board(use_cache=True) counts as a miss: nothing cache-related is raised
\* and the upstream request is made.
C7_Original ==
    (last_call.kind # "none" /\ last_call.use_cache /\ ~last_call.db_up) =>
        /\ last_call.exc # "sqlite3.OperationalError"
        /\ last_call.requests = 1

\* C8: with the cache backend unavailable, a get_board whose upstream fetch
\* succeeded returns the fetched board although the cache write failed.
C8_Original ==
    (/\ last_call.kind # "none" /\ ~last_call.use_cache /\ ~last_call.db_up
     /\ upstream.kind = "200"
     /\ ParseBoard(upstream.payload).location_name # None) =>
        /\ last_call.kind = "return"
        /\ last_call.board = ParseBoard(upstream.payload)

\* C9: a get_board(use_cache=True) made less than the board TTL after the
\* get_board(use_cache=True) that found no entry and fetched (from_cache=False),
\* with the upstream, the cache and the backend left alone in between, is served from the cache: from_cache=True, no upstream
\* request, the board of the first call.
C9_Original ==
    (/\ last_call.kind # "none" /\ last_call.use_cache /\ last_call.clean
     /\ last_call.since_use_cache
     /\ now - last_call.since < CacheTtlSeconds * TicksPerSecond) =>
        /\ last_call.kind = "return"
        /\ last_call.from_cache
        /\ last_call.requests = 0
        /\ last_call.board = last_call.expected

\* C10: board TTL 60 s and a board fetched at t = 0: a get_board(use_cache=True)
\* at any t < 60 s returns the rows of that fetch with from_cache=True and no
\* upstream request; one at t >= 61 s makes an upstream request and returns
\* from_cache=False.
C10_TtlSixtyScenario ==
    /\ CacheTtlSeconds = 60
    /\ (/\ last_call.kind # "none" /\ last_call.use_cache /\ last_call.clean
        /\ last_call.since = 0) =>
          /\ now < CacheTtlSeconds * TicksPerSecond =>
                /\ last_call.kind = "return"
                /\ last_call.from_cache
                /\ last_call.requests = 0
                /\ last_call.board = last_call.expected
          /\ now >= (CacheTtlSeconds + 1) * TicksPerSecond =>
                /\ last_call.kind = "return"
                /\ ~last_call.from_cache
                /\ last_call.requests = 1

\* C10 witness: the board fetched at t = 0 had three rows and is served from
\* the cache at t = 30 s.
C10_Witness ==
    /\ now = 30 * TicksPerSecond
    /\ last_call.kind = "return" /\ last_call.use_cache /\ last_call.clean
    /\ last_call.since = 0
    /\ last_call.from_cache
    /\ Len(last_call.board.trains) = 3
    /\ last_call.board = last_call.expected

\* C11: a get_board that was not served from the cache and whose cache lookup
\* did not raise made exactly one upstream request; when the upstream answered
\* 400 or 404 it raised BoardNotFoundError, and when it answered 401, 403 or
\* 5xx, or the connection failed or timed out, it raised RailAPIError with
\* status 503.
C11_ErrorMapping ==
    (/\ last_call.kind # "none" /\ ~last_call.from_cache
     /\ last_call.exc # "sqlite3.OperationalError"
     /\ upstream.kind \in ErrorKinds) =>
        /\ last_call.requests = 1
        /\ last_call.kind = "raise"
        /\ upstream.kind \in {"400", "404"} => last_call.exc = "BoardNotFoundError"
        /\ upstream.kind \in {"401", "403", "500", "503", "RequestError", "TimeoutException"}
              => last_call.exc = "RailAPIError(503)"

\* C11 witness: a get_board(use_cache=True) that missed the cache, asked the
\* upstream once, got a 400 and raised BoardNotFoundError.
C11_Witness ==
    /\ last_call.kind = "raise" /\ last_call.use_cache
    /\ upstream.kind = "400"
    /\ last_call.exc = "BoardNotFoundError"
    /\ last_call.requests = 1

\* The rows of a payload that parse, in the payload's order.
RECURSIVE GoodRows(_)
GoodRows(rows) ==
    IF rows = <<>> THEN <<>>
    ELSE IF Head(rows).parses THEN <<Head(rows)>> \o GoodRows(Tail(rows))
    ELSE GoodRows(Tail(rows))

\* C12: a get_board that fetched a 200 payload naming its station returns a
\* board whatever rows fail to parse, and the board's trains are exactly the
\* rows that parsed, in the payload's order.
C12_BadRowsSkipped ==
    (/\ last_call.kind # "none" /\ ~last_call.from_cache /\ last_call.db_up
     /\ upstream.kind = "200" /\ upstream.payload # NoPayload) =>
        /\ last_call.kind = "return"
        /\ last_call.board.trains = GoodRows(upstream.payload.trainServices)
        /\ last_call.board.location_name = upstream.payload.locationName

\* C12 witness: a payload of three rows whose second row fails to parse came
\* back as a board of the first and third rows.
C12_Witness ==
    /\ last_call.kind = "return" /\ ~last_call.from_cache
    /\ Len(upstream.payload.trainServices) = 3
    /\ ~upstream.payload.trainServices[2].parses
    /\ last_call.board.trains =
          <<upstream.payload.trainServices[1], upstream.payload.trainServices[3]>>

\* ------------------------------------------------------------------------
\* Properties of get_service_route_following
\* ------------------------------------------------------------------------
\* The stations a follow call asked about, and the last-seen station in the cache.
Queried == { follow_call.log[i].crs : i \in 1..Len(follow_call.log) }
LastSeenCached ==
    IF ServiceLastSeenCacheKey(FollowedService) \in DOMAIN sqlite_rows
    THEN JsonLoads(sqlite_rows[ServiceLastSeenCacheKey(FollowedService)].value)
    ELSE None

C19_Original ==
    (follow_call.kind # "none" /\ follow_call.use_cache) =>
        LET bypass == { i \in 1..Len(follow_call.log) : ~follow_call.log[i].use_cache } IN
        /\ Cardinality(bypass) <= 1
        /\ \A i \in bypass : follow_call.log[i].crs = follow_call.candidates[1]


\* ------------------------------------------------------------------------
\* Properties of the click-through matcher
\* ------------------------------------------------------------------------
\* positions of the predictions that share the requested line and destination
SharedLineAndDestination ==
    { i \in 1..Len(click.predictions) :
        /\ Lower(click.predictions[i].line_id) = Lower(click.line_id)
        /\ Lower(click.predictions[i].destination_naptan_id) = Lower(click.to_stop_id) }

\* those the direction hint leaves in: all of them when there is no hint or
\* when none has the hinted direction, else the ones with the hinted direction
LeftByDirection ==
    LET hinted == { i \in SharedLineAndDestination :
                      click.predictions[i].direction = click.direction }
    IN  IF click.direction = None \/ hinted = {} THEN SharedLineAndDestination ELSE hinted

ReturnedTrip == click.predictions[click.index].trip_id

\* C14 as stated: among the predictions that share the requested line and
\* destination, when the trip id hint equals the trip id of one of them, the
\* matcher returns a prediction with that trip id.
C14_Original ==
    (/\ click.called
     /\ click.trip_id # None
     /\ \E i \in SharedLineAndDestination : click.predictions[i].trip_id = click.trip_id)
    => (click.found /\ ReturnedTrip = click.trip_id)

\* C14 amended: among the predictions that share the requested line and
\* destination and that the direction hint leaves in, when the trip id hint
\* equals the trip id of one of them, the matcher returns a prediction with
\* that trip id, whatever the expected arrivals are.
C14_TripIdFirst ==
    (/\ click.called
     /\ click.trip_id # None
     /\ \E i \in LeftByDirection : click.predictions[i].trip_id = click.trip_id)
    => (click.found /\ click.index \in LeftByDirection /\ ReturnedTrip = click.trip_id)

\* a call whose trip id hint picks a prediction although another prediction
\* of the line and destination is closer to the hinted arrival time
C14_Witness ==
    /\ click.called /\ click.found
    /\ click.trip_id = "trip-a" /\ ReturnedTrip = "trip-a"
    /\ click.expected_arrival # None
    /\ \E j \in LeftByDirection :
          /\ click.predictions[j].trip_id = "trip-b"
          /\ EtaDistanceSeconds(click.predictions[j], ParseIsoDatetime(click.expected_arrival))
               < EtaDistanceSeconds(click.predictions[click.index],
                                    ParseIsoDatetime(click.expected_arrival))


\* ------------------------------------------------------------------------
\* Properties of the prefetch fan-out
\* ------------------------------------------------------------------------
BoardKinds == {"nr-board", "tfl-board"}
ServiceKinds == {"nr", "tfl"}

\* the jobs the runner of job t scheduled
ScheduledBy(t) == { c \in TaskIds : tasks[c].parent = t }

\* the rows of a board that link to a service page
LinkedRows(job_key, rows) ==
    { i \in 1..Len(rows) :
        IF Kind(job_key) = "nr-board"
        THEN rows[i].service_id # ""
        ELSE rows[i].line_id # "" /\ rows[i].from_stop_id # "" /\ rows[i].to_stop_id # "" }

\* C15: fan-out is one level deep. Only board jobs schedule jobs and what they
\* schedule are service jobs, one per linked row of the board they fetched; a
\* service job schedules nothing; so a board job and the jobs it caused are
\* at most 1 + (number of rows).
C15_FanOutOneLevel ==
    \A t \in TaskIds :
        /\ ScheduledBy(t) # {} => Kind(tasks[t].key) \in BoardKinds
        /\ \A c \in ScheduledBy(t) : Kind(tasks[c].key) \in ServiceKinds
        /\ Kind(tasks[t].key) \in ServiceKinds => ScheduledBy(t) = {}
        /\ (Kind(tasks[t].key) \in BoardKinds /\ tasks[t].pc = "done")
              => Cardinality(ScheduledBy(t))
                   = Cardinality(LinkedRows(tasks[t].key, tasks[t].rows))
        /\ 1 + Cardinality(ScheduledBy(t)) <= 1 + Len(tasks[t].rows)

\* a board job that fetched a board with a linked row has ended, and the
\* service job it scheduled for the row has ended without scheduling anything
C15_Witness ==
    \E t \in TaskIds, c \in TaskIds :
        /\ Kind(tasks[t].key) \in BoardKinds /\ tasks[t].pc = "done"
        /\ LinkedRows(tasks[t].key, tasks[t].rows) # {}
        /\ tasks[c].parent = t /\ tasks[c].pc = "done" /\ tasks[c].result = "done"


\* ------------------------------------------------------------------------
\* Properties of the NR board page
\* ------------------------------------------------------------------------
\* the rows of the rendered board that have a service id and a service URL
PageLinkedRows ==
    { i \in 1..Len(page_call.trains) :
        page_call.trains[i].service_id # "" /\ page_call.trains[i].service_url # "" }

\* C16 as stated: rendering the NR board page schedules service prefetch jobs
\* only when the board was freshly fetched, then one per row with a service id
\* and a service URL; for a board served from the cache it schedules none.
C16_Original ==
    page_call.kind = "200" =>
        IF page_call.from_cache
        THEN page_call.scheduled = <<>>
        ELSE Len(page_call.scheduled) = Cardinality(PageLinkedRows)


\* ------------------------------------------------------------------------
\* Properties of the cached follow resolution
\* ------------------------------------------------------------------------
\* the call in cached_follow is a second call for a station and service whose
\* resolution was run and cached less than the TTL ago
SecondCallWithinTtl ==
    /\ cached_follow.kind # "none" /\ cached_follow.use_cache
    /\ cached_follow.prev_stored
    /\ cached_follow.at - cached_follow.prev_at < CacheTtlSeconds * TicksPerSecond

\* C17 as stated: the second of two calls for the same station and service id
\* within the TTL does not run the follow resolution again and returns the
\* cached, non-null result.
C17_Original ==
    SecondCallWithinTtl
        => /\ cached_follow.resolutions = 0
           /\ cached_follow.hit
           /\ cached_follow.result = cached_follow.prev_result


\* ------------------------------------------------------------------------
\* Properties of the hub resolution
\* ------------------------------------------------------------------------
\* C18 as stated: resolve_stop_point_id never fails because of the upstream;
\* when the child lookup of a hub id fails or finds no child with a configured
\* mode it returns the id it was given; a non-hub id is returned unchanged
\* without any upstream request.
C18_Original ==
    /\ resolve_call.kind # "raise"
    /\ resolve_call.lookup \in {"failed", "no-child"}
          => resolve_call.result = resolve_call.stop_point_id
    /\ (resolve_call.kind = "return" /\ ~IsHubId(Strip(resolve_call.stop_point_id)))
          => (resolve_call.result = resolve_call.stop_point_id /\ resolve_call.requests = 0)


\* ------------------------------------------------------------------------
\* Properties of the in-flight set
\* ------------------------------------------------------------------------
\* the tasks between a successful claim and their release
ClaimedTasks == { t \in TaskIds : tasks[t].pc \in InFlightPcs }

\* C20: in every reachable state, whatever the interleaving of schedule calls,
\* claims, semaphore waits, completions and releases, a job key has at most one
\* task between its claim and its release, and _active_job_keys is exactly the
\* set of the keys of those tasks.
C20_InFlightSetExact ==
    /\ \A t1, t2 \in ClaimedTasks : tasks[t1].key = tasks[t2].key => t1 = t2
    /\ active_job_keys = { tasks[t].key : t \in ClaimedTasks }

\* a job has ended and released its key while a job of another key, claimed
\* meanwhile, is in its body: the set holds the second key only
C20_Witness ==
    \E t1, t2 \in TaskIds :
        /\ tasks[t1].pc = "done" /\ tasks[t1].result # "done"
        /\ tasks[t2].pc = "running"
        /\ tasks[t1].key # tasks[t2].key
        /\ active_job_keys = {tasks[t2].key}


\* ------------------------------------------------------------------------
\* Properties of the per-job timeout
\* ------------------------------------------------------------------------
\* the step in which the body of job t is cut off by wait_for's timeout
TimesOut(t) ==
    /\ t \in TaskIds /\ tasks[t].pc = "running"
    /\ tasks'[t].pc = "done" /\ tasks'[t].result = "timeout"

\* what that step may do to another job u: nothing, or hand it the permit
Untouched(u) ==
    \/ tasks'[u] = tasks[u]
    \/ /\ tasks[u].pc = "semwait" /\ sem_waiters # <<>> /\ Head(sem_waiters) = u
       /\ tasks'[u] = [tasks[u] EXCEPT !.pc = "woken"]

\* C21: a job that exceeds its timeout is aborted alone. In the step that ends
\* it its key leaves the in-flight set and no other key does, its permit goes
\* back to the semaphore or to the first waiter, no job is created and every
\* other job is left as it was; and every job in flight at that moment still
\* reaches its own end.
C21_TimeoutAbortsAlone ==
    /\ [][\A t \in 1..MaxTasks :
            TimesOut(t) =>
              /\ active_job_keys' = active_job_keys \ {tasks[t].key}
              /\ IF sem_waiters = <<>>
                 THEN sem_value' = sem_value + 1 /\ sem_waiters' = sem_waiters
                 ELSE sem_value' = sem_value /\ sem_waiters' = Tail(sem_waiters)
              /\ Len(tasks') = Len(tasks)
              /\ \A u \in TaskIds \ {t} : Untouched(u)]_vars
    /\ \A u \in 1..MaxTasks :
          (/\ u \in TaskIds /\ tasks[u].pc \in InFlightPcs
           /\ \E t \in TaskIds \ {u} : tasks[t].result = "timeout")
             ~> (u \in TaskIds /\ tasks[u].pc = "done")

\* a job has timed out and the job that was queued behind it has been handed
\* its permit
C21_Witness ==
    \E t, u \in TaskIds :
        /\ tasks[t].pc = "done" /\ tasks[t].result = "timeout"
        /\ tasks[u].pc = "woken"
        /\ active_job_keys = {tasks[u].key}
        /\ sem_value = 0


\* ------------------------------------------------------------------------
\* Properties of the follow resolution: outcome, candidate list, limit
\* ------------------------------------------------------------------------
\* C22: when every detailed board a follow call fetched was fetched
\* successfully and none of them had the service, the call returns None as a
\* normal result: nothing is raised.
C22_NotFoundIsNormal ==
    (/\ follow_call.kind # "none"
     /\ \A i \in 1..Len(follow_call.log) : follow_call.log[i].ok /\ ~follow_call.log[i].found)
    => (follow_call.kind = "return" /\ follow_call.result = None /\ follow_call.exc = None)

\* a call that went through three candidates, upstream and cache, found the
\* service nowhere and returned None
C22_Witness ==
    /\ follow_call.kind = "return" /\ follow_call.result = None
    /\ Len(follow_call.candidates) = 3
    /\ Range(follow_call.candidates) \subseteq Queried
    /\ \E i \in 1..Len(follow_call.log) : follow_call.log[i].asked
    /\ \E i \in 1..Len(follow_call.log) : follow_call.log[i].from_cache

\* what the candidate list is built from, in order: the last-seen hint if any,
\* the requested station, the cached calling-point candidates
CandidateSources ==
    (IF follow_call.hint # None THEN <<follow_call.hint>> ELSE <<>>)
      \o <<follow_call.crs>> \o follow_call.cached

\* C23: the candidate list of a follow call has no station twice and holds the
\* last-seen station (if any), then the requested station, then the cached
\* candidates in their stored order, each at its first occurrence; the
\* stations are queried in that order, none skipped.
C23_CandidateOrder ==
    follow_call.kind # "none" =>
        LET candidates == follow_call.candidates
            log == follow_call.log
        IN  /\ \A i, j \in 1..Len(candidates) : candidates[i] = candidates[j] => i = j
            /\ Range(candidates) = Range(CandidateSources)
            /\ \A i, j \in 1..Len(candidates) :
                  i < j => FirstPosition(CandidateSources, candidates[i])
                             < FirstPosition(CandidateSources, candidates[j])
            /\ \A i, j \in 1..Len(log) :
                  i < j => Index(candidates, log[i].crs) <= Index(candidates, log[j].crs)
            /\ \A k \in 1..Len(candidates) :
                  candidates[k] \in Queried
                     => \A earlier \in 1..k : candidates[earlier] \in Queried

\* a call with a last-seen hint other than the requested station, both of them
\* in the cached list as well, and every candidate queried
C23_Witness ==
    /\ follow_call.kind = "return"
    /\ follow_call.hint # None /\ follow_call.hint # follow_call.crs
    /\ follow_call.hint \in Range(follow_call.cached)
    /\ follow_call.crs \in Range(follow_call.cached)
    /\ Len(follow_call.candidates) = 3
    /\ follow_call.candidates[1] = follow_call.hint
    /\ follow_call.candidates[2] = follow_call.crs
    /\ Cardinality(Queried) = 3

\* C24: a follow call fetches the detailed boards of at most
\* max_stations_to_check stations, the first of its candidate list; no
\* candidate beyond that count is queried.
C24_StationLimit ==
    follow_call.kind # "none" =>
        /\ Cardinality(Queried) <= follow_call.limit
        /\ \A k \in 1..Len(follow_call.candidates) :
              k > follow_call.limit => follow_call.candidates[k] \notin Queried

\* a call with three candidates and a limit of two: two stations queried, the
\* third left alone, None returned
C24_Witness ==
    /\ follow_call.kind = "return" /\ follow_call.result = None
    /\ follow_call.limit = 2
    /\ Len(follow_call.candidates) = 3
    /\ Queried = {follow_call.candidates[1], follow_call.candidates[2]}


\* ------------------------------------------------------------------------
\* Properties of the click-through matcher: priority and filters
\* ------------------------------------------------------------------------
\* the candidates that remain after the filters, as positions
RemainingCandidates ==
    ClickCandidates(click.predictions, click.line_id, click.to_stop_id, click.direction)

\* distance of a prediction from the hinted time as the documentation has it:
\* the absolute time difference, or the time to station (0 included) when a
\* timestamp is missing
StatedDistance(prediction, target_eta) ==
    IF target_eta # NoTime /\ prediction.expected_arrival # NoTime
    THEN Abs(TotalSeconds(prediction.expected_arrival) - TotalSeconds(target_eta))
    ELSE IF prediction.time_to_station = NoTime THEN FarAway
         ELSE prediction.time_to_station

\* C25 as stated: among the remaining candidates a trip id match is returned;
\* otherwise a vehicle id match; otherwise, when a target time is hinted, a
\* candidate nearest to it, by absolute time difference or by time to
\* station (0 included) when a timestamp is missing; otherwise the first.
C25_Original ==
    (click.called /\ RemainingCandidates # <<>>) =>
        LET remaining == Range(RemainingCandidates)
            target_eta == ParseIsoDatetime(click.expected_arrival)
            trip_matches == { i \in remaining : click.trip_id # None
                                /\ click.predictions[i].trip_id = click.trip_id }
            vehicle_matches == { i \in remaining : click.vehicle_id # None
                                   /\ click.predictions[i].vehicle_id = click.vehicle_id }
        IN  /\ click.found
            /\ IF trip_matches # {} THEN click.index \in trip_matches
               ELSE IF vehicle_matches # {} THEN click.index \in vehicle_matches
               ELSE IF target_eta # NoTime
                    THEN /\ click.index \in remaining
                         /\ \A j \in remaining :
                               StatedDistance(click.predictions[click.index], target_eta)
                                 <= StatedDistance(click.predictions[j], target_eta)
               ELSE click.index = RemainingCandidates[1]


\* positions of the predictions of the requested line and, when a destination
\* is given, of that destination (ids compared lower-cased and stripped)
OnLineAndDestination ==
    { i \in 1..Len(click.predictions) :
        /\ Strip(Lower(OrEmpty(click.predictions[i].line_id))) = Strip(Lower(click.line_id))
        /\ Strip(Lower(click.to_stop_id)) # ""
             => Strip(Lower(OrEmpty(click.predictions[i].destination_naptan_id)))
                  = Strip(Lower(click.to_stop_id)) }

\* those of them that run in the hinted direction
InHintedDirection ==
    { i \in OnLineAndDestination :
        NormalizeDirection(click.predictions[i].direction) = NormalizeDirection(click.direction) }

\* C26: the matcher returns a prediction exactly when one has the requested
\* line id and, when a destination id is given, that destination id, and the
\* returned prediction is one of these; with a direction hint, the returned
\* prediction has that direction when any of them has, and when none has the
\* result is the one the call gives without the direction hint.
C26_ClickFilters ==
    click.called =>
        /\ click.found <=> OnLineAndDestination # {}
        /\ click.found => click.index \in OnLineAndDestination
        /\ (click.direction # None /\ InHintedDirection # {})
              => click.index \in InHintedDirection
        /\ (click.direction # None /\ InHintedDirection = {})
              => click.index = MatchPredictionForClick(click.predictions, click.line_id,
                                     click.to_stop_id, None, click.trip_id, click.vehicle_id,
                                     click.expected_arrival).index

\* a call with a destination and a direction hint where the first prediction
\* is not of the line and destination and none of the others has the hinted
\* direction: the second prediction is returned all the same
C26_Witness ==
    /\ click.called /\ click.found /\ click.index = 2
    /\ click.to_stop_id # "" /\ click.direction = "inbound"
    /\ 1 \notin OnLineAndDestination
    /\ InHintedDirection = {}
    /\ click.predictions[1].direction = "inbound"


\* ------------------------------------------------------------------------
\* Properties of the service route detail
\* ------------------------------------------------------------------------
\* the intervals of the timetable the call worked with ({} when the lookup
\* failed)
CallIntervals ==
    IF route_call.timetable.exc # None THEN <<>> ELSE route_call.timetable.intervals

\* a call that returned an itinerary derived from the timetable: no route
\* sequence gave a segment and the timetable has a relative ETA
TimetableDerived ==
    /\ route_call.kind = "return"
    /\ route_call.segment = <<>>
    /\ ExtractTimetableEtaLookup(CallIntervals) # <<>>

\* C27 as stated: an itinerary derived from the timetable starts at the
\* origin, ends at the destination, and its stops are in non-decreasing order
\* of relative ETA.
C27_Original ==
    TimetableDerived =>
        LET stops == route_call.stops
        IN  /\ stops[1].stop_id = route_call.from_stop_id
            /\ stops[Len(stops)].stop_id = route_call.to_stop_id
            /\ \A i, j \in 1..Len(stops) :
                  (i < j /\ stops[i].eta_minutes # NoTime /\ stops[j].eta_minutes # NoTime)
                     => stops[i].eta_minutes <= stops[j].eta_minutes


\* the segments from the origin to the destination, both included, that the
\* route sequences of a direction hold (none when the lookup failed)
UsableSegments(d) ==
    IF route_call.route[d].exc # None THEN {}
    ELSE { SubSeq(sequence, i, j) :
             <<sequence, i, j>> \in
               { <<sequence, i, j>> \in Range(route_call.route[d].sequences) \X (1..3) \X (1..3) :
                   /\ i <= j /\ j <= Len(sequence)
                   /\ sequence[i] = route_call.from_stop_id
                   /\ sequence[j] = route_call.to_stop_id } }

OtherDirection(d) == IF d = "inbound" THEN "outbound" ELSE "inbound"

\* the direction the call starts with: the hinted one, else the one of the
\* matched prediction, else inbound
DirectionTriedFirst ==
    IF route_call.direction \in Directions THEN route_call.direction
    ELSE IF RouteMatched(route_call).found
         THEN route_call.predictions.items[RouteMatched(route_call).index].direction
         ELSE "inbound"

NothingUsable ==
    /\ route_call.kind # "none"
    /\ RouteLineId(route_call) # "" /\ route_call.predictions.exc = None
    /\ \A d \in Directions : UsableSegments(d) = {}
    /\ ExtractTimetableEtaLookup(CallIntervals) = <<>>

\* C29: when the route sequence lookups and the timetable lookup fail or
\* give nothing usable, get_service_route_detail returns, and the itinerary
\* is exactly the origin flagged is_current followed by the destination
\* flagged is_destination.
C29_MinimalItinerary ==
    NothingUsable =>
        /\ route_call.kind = "return" /\ route_call.exc = None
        /\ Len(route_call.stops) = 2
        /\ route_call.stops[1].stop_id = route_call.from_stop_id
        /\ route_call.stops[1].is_current /\ ~route_call.stops[1].is_destination
        /\ route_call.stops[2].stop_id = route_call.to_stop_id
        /\ route_call.stops[2].is_destination /\ ~route_call.stops[2].is_current

\* a call for which the three lookups all raised and which returned the two
\* stops
C29_Witness ==
    /\ route_call.kind = "return"
    /\ \A d \in Directions : route_call.route[d].exc = "TflAPIError"
    /\ route_call.timetable.exc = "TflAPIError"
    /\ route_call.tried = <<"inbound", "outbound">>
    /\ Len(route_call.stops) = 2
    /\ route_call.stops[1].is_current /\ route_call.stops[2].is_destination


\* ------------------------------------------------------------------------
\* Properties of the stop-point board
\* ------------------------------------------------------------------------
\* the line ids among the predictions of the board returned
ReturnedLineIds ==
    { tfl_board_call.trains[i].line_id : i \in 1..Len(tfl_board_call.trains) } \ {None, ""}

ReturnedStatusLines ==
    { tfl_board_call.line_status[i].line_id : i \in 1..Len(tfl_board_call.line_status) }

\* C30 as stated: every line status of a board returned by get_board is of a
\* line id found among the board's predictions, for a board without
\* predictions too.
C30_Original ==
    tfl_board_call.kind = "return" => ReturnedStatusLines \subseteq ReturnedLineIds

\* C30 amended: when a prediction of the board has a line id, every line
\* status of the board is of a line id found among the board's predictions,
\* and every status of such a line is kept; a board none of whose
\* predictions has a line id carries all the line statuses it was built with.
C30_RelevantStatuses ==
    tfl_board_call.kind = "return" =>
        /\ ReturnedLineIds # {} => ReturnedStatusLines \subseteq ReturnedLineIds
        /\ ~tfl_board_call.from_cache =>
              tfl_board_call.line_status =
                 IF ReturnedLineIds = {} THEN tfl_board_call.status
                 ELSE LET Kept(status) == status.line_id \in ReturnedLineIds
                      IN  SelectSeq(tfl_board_call.status, Kept)

\* a board served from the cache whose predictions are of the victoria line
\* only and whose one status is the victoria one
C30_Witness ==
    /\ tfl_board_call.kind = "return" /\ tfl_board_call.from_cache
    /\ ReturnedLineIds = {"victoria"}
    /\ Len(tfl_board_call.trains) = 2
    /\ Len(tfl_board_call.line_status) = 1


\* ------------------------------------------------------------------------
\* Properties of the TfL request
\* ------------------------------------------------------------------------
\* C31: a _get_json call without an app key raises TflAPIError with status
\* 503 and sends no request; with one, a 404 raises TflBoardNotFoundError,
\* and a 401, a 403, a 5xx, a connection error, a timeout or a body that is
\* not JSON raises TflAPIError.
C31_ErrorMapping ==
    tfl_request.kind # "none" =>
        IF tfl_request.app_key = ""
        THEN /\ tfl_request.kind = "raise" /\ tfl_request.exc = "TflAPIError"
             /\ tfl_request.status_code = 503 /\ tfl_request.requests = 0
        ELSE LET answer == tfl_request.answer
             IN  /\ tfl_request.requests = 1
                 /\ (answer.kind = "response" /\ answer.status_code = 404)
                       => tfl_request.exc = "TflBoardNotFoundError"
                 /\ (answer.kind = "response"
                     /\ (answer.status_code \in {401, 403} \/ answer.status_code \in 500..599))
                       => tfl_request.exc = "TflAPIError"
                 /\ answer.kind \in {"RequestError", "TimeoutException"}
                       => tfl_request.exc = "TflAPIError"
                 /\ (answer.kind = "response" /\ answer.status_code = 200 /\ ~answer.json)
                       => tfl_request.exc = "TflAPIError"
                 /\ tfl_request.exc # None <=> tfl_request.kind = "raise"

\* a call that met a 404 with credentials set, and raised TflBoardNotFoundError
C31_Witness ==
    /\ tfl_request.kind = "raise" /\ tfl_request.app_key # ""
    /\ tfl_request.answer.status_code = 404
    /\ tfl_request.exc = "TflBoardNotFoundError"
    /\ tfl_request.request_params = {"app_key", "app_id", "serviceTypes"}


\* C32: set(k, v2, ttl2) on a key that holds an entry, expired or not,
\* replaces the value and restarts the expiry: a get(k) before ttl2 has
\* elapsed since that set returns v2 from either backend.
C32_Original ==
    (/\ last_op.op = "get"
     /\ ghost[last_op.key].st = "set" /\ ghost[last_op.key].held
     /\ ghost[last_op.key].ttl > 0
     /\ now - ghost[last_op.key].at < ghost[last_op.key].ttl * TicksPerSecond)
        => /\ last_op.simple = ghost[last_op.key].value
           /\ last_op.sqlite = ghost[last_op.key].value


\* ------------------------------------------------------------------------
\* Properties of the cache shared by workers
\* ------------------------------------------------------------------------
\* C33: with two workers on the SQLite cache, the eviction done by get never
\* removes an entry that has not expired: while the ttl of the last completed
\* set(k, v, ttl) has not elapsed its row is in the table, and a get(k) that
\* starts after that set, within ttl, returns v.
C33_Original ==
    /\ \A k \in CacheKeys :
         (/\ ghost[k].st = "set"
          /\ now - ghost[k].at < TtlOrDefault(ghost[k].ttl) * TicksPerSecond)
            => k \in DOMAIN sqlite_rows
    /\ \A w \in Workers :
         (/\ workers[w].pc = "idle" /\ workers[w].last = "get"
          /\ workers[w].seen.st = "set"
          /\ workers[w].select_now * TicksPerSecond - workers[w].seen.at
                < TtlOrDefault(workers[w].seen.ttl) * TicksPerSecond)
            => workers[w].result = workers[w].seen.value


\* ------------------------------------------------------------------------
\* Properties of the fan-out of a board job
\* ------------------------------------------------------------------------
\* the jobs that hold their key
ClaimedPcs == {"semwait", "woken", "running", "fanned"}
AsConstructed ==
    /\ active_job_keys = {} /\ sem_waiters = <<>>
    /\ sem_value = prefetch_max_concurrency

\* C34: for every concurrency limit from 1 on, a board job that schedules
\* service jobs while it holds a permit does not deadlock the coordinator:
\* every job that claimed its key reaches its end, whenever every job has
\* ended no key is in flight and every permit is free, and once the last job
\* has been scheduled that state is reached.
C34_NoFanOutDeadlock ==
    /\ \A t \in 1..MaxTasks :
         (t \in TaskIds /\ tasks[t].pc \in ClaimedPcs)
            ~> (t \in TaskIds /\ tasks[t].pc = "done")
    /\ [](Quiescent => AsConstructed)
    /\ (Len(tasks) = MaxTasks) ~> (Quiescent /\ AsConstructed)

\* with one permit, a board job holds it after scheduling a service job, and
\* that job has claimed its key and queues for the permit
C34_Witness ==
    \E t, c \in TaskIds :
        /\ prefetch_max_concurrency = 1 /\ sem_value = 0
        /\ tasks[t].pc = "fanned"
        /\ tasks[c].parent = t /\ tasks[c].pc = "semwait"
        /\ active_job_keys = {tasks[t].key, tasks[c].key}


\* ------------------------------------------------------------------------
\* Properties of board fetches that fail
\* ------------------------------------------------------------------------
\* a step that is a get_board or a detailed-board call ending in an exception
BoardCallRaises ==
    \/ last_call' # last_call /\ last_call'.kind = "raise"
    \/ follow_call' # follow_call /\ follow_call'.kind = "raise"

\* what a cache-enabled call reads under key
Served(rows, key) == [hit |-> SqliteGet(rows, key, now).hit, value |-> SqliteGet(rows, key, now).value]

HintKeys == {ServiceRouteCacheKey(FollowedService), ServiceLastSeenCacheKey(FollowedService)}
\* the rows of the tracking hints are the same before and after the step
HintsUnchanged ==
    \A k \in HintKeys :
        /\ (k \in DOMAIN sqlite_rows') = (k \in DOMAIN sqlite_rows)
        /\ k \in DOMAIN sqlite_rows => sqlite_rows'[k] = sqlite_rows[k]

C38_Original ==
    (/\ resolve_call.kind = "return" /\ IsHubId(Strip(resolve_call.stop_point_id))
     /\ resolve_call.since.failed)
       => /\ now - resolve_call.since.at < CacheTtlSeconds * TicksPerSecond
               => /\ resolve_call.hit /\ resolve_call.requests = 0
                  /\ Lower(resolve_call.result) = Lower(resolve_call.stop_point_id)
          /\ now - resolve_call.since.at > CacheTtlSeconds * TicksPerSecond
               => /\ ~resolve_call.hit
                  /\ resolve_call.lookup # "none"


\* ------------------------------------------------------------------------
\* Properties of the two cache backends side by side
\* ------------------------------------------------------------------------
\* C39: SimpleCache and SQLiteCache, given the same set/get/delete/clear/size
\* operations at the same whole-second times, return the same value from
\* every get (a get exactly ttl seconds after the set among them) and the
\* same number from every size.
C39_Original ==
    last_op.op \in {"get", "size"} => last_op.simple = last_op.sqlite


\* ------------------------------------------------------------------------
\* Properties of the flags of an itinerary
\* ------------------------------------------------------------------------
\* C40: every itinerary get_service_route_detail returns, built from a route
\* sequence, from the timetable or as the two stops, has the resolved origin
\* among its stops flagged is_current and the resolved destination flagged
\* is_destination, and no other stop carries either flag.
C40_FlagsOriginAndDestination ==
    route_call.kind = "return" =>
        LET stops == route_call.stops IN
        /\ \E i \in 1..Len(stops) :
              stops[i].stop_id = route_call.from_stop_id /\ stops[i].is_current
        /\ \E i \in 1..Len(stops) :
              stops[i].stop_id = route_call.to_stop_id /\ stops[i].is_destination
        /\ \A i \in 1..Len(stops) :
              /\ stops[i].is_current => stops[i].stop_id = route_call.from_stop_id
              /\ stops[i].is_destination => stops[i].stop_id = route_call.to_stop_id

\* an itinerary built from the timetable in which the destination comes
\* before the origin, each with its flag, and a third stop without a flag
C40_Witness ==
    /\ route_call.kind = "return" /\ route_call.segment = <<>>
    /\ Len(route_call.stops) = 3
    /\ \E i, j \in 1..3 :
          /\ j < i
          /\ route_call.stops[i].is_current /\ route_call.stops[j].is_destination
    /\ \E i \in 1..3 :
          ~route_call.stops[i].is_current /\ ~route_call.stops[i].is_destination

====
